---- MODULE Spec2Model ----
(***************************************************************************)
(* The interactive 2D view of re_viewer (crates/re_viewer/src/ui/view_2d/  *)
(* ui.rs): the zoom/pan state machine View2DState, the per-frame driver    *)
(* view_2d / view_2d_scrollable, and the hit-test over the frame's         *)
(* primitives.                                                             *)
(*                                                                         *)
(* Numbers.  Every number of the program is an f32.  An f32 is modelled as *)
(* a binary floating-point number with MantBits significand bits and a     *)
(* smallest quantum of 2^-FracBits, rounded to nearest, ties to even, as   *)
(* IEEE 754 rounds; +inf, -inf and NaN are kept as three special values.   *)
(* A finite number x is held as the integer x * 2^FracBits.  Signed zeros  *)
(* and overflow to infinity of finite operands are not modelled (the       *)
(* guards keep every finite value far below the largest f32).              *)
(***************************************************************************)
EXTENDS Integers, Sequences, FiniteSets, TLC

\* ------------------------------------------------------------------ bounds

\* Significand bits of the modelled float (24 in an f32).
MantBits == 6
\* Binary digits after the point of the smallest quantum.
FracBits == 4
\* Frames the driver runs.
MaxFrames == 2
\* Frames the driver runs when the input is panning and zooming only.
MaxHoverFrames == 2
MaxIdleFrames == 4
MaxPanFrames == 3

\* ------------------------------------------------------------- arithmetic

G == 2^FracBits
PInf == 2^30
NInf == -(2^30)
NaN == 2^30 + 1

Num(n) == n * G
Half == G \div 2

IsNaN(a) == a = NaN
IsInf(a) == a = PInf \/ a = NInf
IsFinite(a) == ~IsNaN(a) /\ ~IsInf(a)

Abs(a) == IF a < 0 THEN -a ELSE a
Sign(a) == IF a < 0 THEN -1 ELSE IF a > 0 THEN 1 ELSE 0

RECURSIVE QuantumOf(_, _)
\* The spacing of the floats around a magnitude m: the least power of two q
\* with m < 2^MantBits * q.
QuantumOf(m, q) == IF m < (2^MantBits) * q THEN q ELSE QuantumOf(m, 2 * q)

Ulp(a) == QuantumOf(Abs(a), 1)

\* n / d (n >= 0, d > 0) rounded to the nearest integer, ties to even.
RoundHalfEven(n, d) ==
    LET qt == n \div d
        r == n % d
    IN  IF 2 * r < d THEN qt
        ELSE IF 2 * r > d THEN qt + 1
        ELSE IF qt % 2 = 0 THEN qt ELSE qt + 1

\* The float nearest to the rational n / d (d > 0), in units of the quantum.
Fl(n, d) ==
    LET m == Abs(n)
        q == QuantumOf(m \div d, 1)
    IN  Sign(n) * q * RoundHalfEven(m, d * q)

FAdd(a, b) ==
    IF IsNaN(a) \/ IsNaN(b) THEN NaN
    ELSE IF IsInf(a) THEN (IF IsInf(b) /\ a # b THEN NaN ELSE a)
    ELSE IF IsInf(b) THEN b
    ELSE Fl(a + b, 1)

FNeg(a) == IF IsNaN(a) THEN NaN ELSE -a

FSub(a, b) == FAdd(a, FNeg(b))

FMul(a, b) ==
    IF IsNaN(a) \/ IsNaN(b) THEN NaN
    ELSE IF IsInf(a) \/ IsInf(b)
         THEN (IF a = 0 \/ b = 0 THEN NaN
               ELSE IF Sign(a) * Sign(b) > 0 THEN PInf ELSE NInf)
    ELSE LET qa == Ulp(a)
             qb == Ulp(b)
             mm == (a \div qa) * (b \div qb)
             k == qa * qb
         IN  IF k >= G THEN Fl(mm * (k \div G), 1) ELSE Fl(mm, G \div k)

FDiv(a, b) ==
    IF IsNaN(a) \/ IsNaN(b) THEN NaN
    ELSE IF IsInf(a)
         THEN (IF IsInf(b) THEN NaN
               ELSE IF Sign(a) * (IF b < 0 THEN -1 ELSE 1) > 0 THEN PInf ELSE NInf)
    ELSE IF IsInf(b) THEN 0
    ELSE IF b = 0
         THEN (IF a = 0 THEN NaN ELSE IF a > 0 THEN PInf ELSE NInf)
    ELSE LET qa == Ulp(a)
             qb == Ulp(b)
             ma == Sign(b) * (a \div qa)
             mb == Abs(b) \div qb
             n2 == qa * G
         IN  IF n2 >= qb THEN Fl(ma * (n2 \div qb), mb)
             ELSE Fl(ma, mb * (qb \div n2))

\* Comparisons: every comparison with a NaN is false.
FLt(a, b) == ~IsNaN(a) /\ ~IsNaN(b) /\ a < b
FLe(a, b) == ~IsNaN(a) /\ ~IsNaN(b) /\ a <= b
FGt(a, b) == FLt(b, a)
FEq(a, b) == ~IsNaN(a) /\ ~IsNaN(b) /\ a = b

\* f32::min and f32::max: a NaN operand is ignored.
FMin(a, b) == IF IsNaN(a) THEN b ELSE IF IsNaN(b) THEN a ELSE IF a < b THEN a ELSE b
FMax(a, b) == IF IsNaN(a) THEN b ELSE IF IsNaN(b) THEN a ELSE IF a > b THEN a ELSE b

RECURSIVE ISqrtFrom(_, _)
\* The integer square root of n >= 0, by Newton's iteration from above.
ISqrtFrom(n, x) ==
    LET y == (x + n \div x) \div 2
    IN  IF y >= x THEN x ELSE ISqrtFrom(n, y)

ISqrt(n) == IF n = 0 THEN 0 ELSE ISqrtFrom(n, n)

\* The square root of the integer n >= 0, rounded to the nearest float.
SqrtRounded(n) ==
    LET q == QuantumOf(ISqrt(n), 1)
        m == ISqrt(n \div (q * q))
        mid == (2 * m + 1) * q
    IN  IF 4 * n < mid * mid THEN m * q
        ELSE IF 4 * n > mid * mid THEN (m + 1) * q
        ELSE IF m % 2 = 0 THEN m * q ELSE (m + 1) * q

\* f32::sqrt, correctly rounded: sqrt(a / G) * G = sqrt(a * G).  A power of
\* four in a * G is taken out of the root first, so that the integers stay
\* small; scaling by a power of two is exact.
FSqrt(a) ==
    IF IsNaN(a) \/ a < 0 THEN NaN
    ELSE IF a = PInf THEN PInf
    ELSE LET k == Ulp(a) * G
             big == 4^MantBits
         IN  IF k <= big THEN SqrtRounded(a * G)
             ELSE LET t == k \div big
                      r == ISqrt(t)
                      u == IF r * r = t THEN r ELSE ISqrt(t \div 2)
                  IN  u * SqrtRounded((a \div Ulp(a)) * big * (t \div (u * u)))

\* ------------------------------------------------- egui geometry (emath)

V2(x, y) == [x |-> x, y |-> y]
VZero == V2(0, 0)

VAdd(a, b) == V2(FAdd(a.x, b.x), FAdd(a.y, b.y))
VSub(a, b) == V2(FSub(a.x, b.x), FSub(a.y, b.y))
\* Vec2 * f32 and Vec2 / f32
VScale(a, k) == V2(FMul(a.x, k), FMul(a.y, k))
VDivS(a, k) == V2(FDiv(a.x, k), FDiv(a.y, k))
\* NumExt::at_most / at_least on a Vec2: component-wise f32::min / f32::max
VAtMost(a, b) == V2(FMin(a.x, b.x), FMin(a.y, b.y))
VAtLeast(a, b) == V2(FMax(a.x, b.x), FMax(a.y, b.y))
VIsFinite(a) == IsFinite(a.x) /\ IsFinite(a.y)

Rect(mn, mx) == [min |-> mn, max |-> mx]
RectNothing == Rect(V2(PInf, PInf), V2(NInf, NInf))
RectFromMinSize(mn, size) == Rect(mn, VAdd(mn, size))
RectSize(r) == VSub(r.max, r.min)
RectWidth(r) == FSub(r.max.x, r.min.x)
RectHeight(r) == FSub(r.max.y, r.min.y)
RectCenter(r) == V2(FDiv(FAdd(r.min.x, r.max.x), Num(2)), FDiv(FAdd(r.min.y, r.max.y), Num(2)))
RectIsPositive(r) == FLt(r.min.x, r.max.x) /\ FLt(r.min.y, r.max.y)
\* The later rectangle in place of the union.
RectUnionLatest(a, b) == b

RectUnion(a, b) ==
    Rect(V2(FMin(a.min.x, b.min.x), FMin(a.min.y, b.min.y)),
         V2(FMax(a.max.x, b.max.x), FMax(a.max.y, b.max.y)))
RectContains(r, p) ==
    FLe(r.min.x, p.x) /\ FLe(p.x, r.max.x) /\ FLe(r.min.y, p.y) /\ FLe(p.y, r.max.y)
RectExpand2(r, v) == Rect(VSub(r.min, v), VAdd(r.max, v))
RectCenterBottom(r) == V2(RectCenter(r).x, r.max.y)
RectIntersect(a, b) ==
    Rect(V2(FMax(a.min.x, b.min.x), FMax(a.min.y, b.min.y)),
         V2(FMin(a.max.x, b.max.x), FMin(a.max.y, b.max.y)))

\* Rect::distance_sq_to_pos and Rect::distance_to_pos
RectDistanceSqToPos(r, p) ==
    LET dx == IF FGt(r.min.x, p.x) THEN FSub(r.min.x, p.x)
              ELSE IF FGt(p.x, r.max.x) THEN FSub(p.x, r.max.x) ELSE 0
        dy == IF FGt(r.min.y, p.y) THEN FSub(r.min.y, p.y)
              ELSE IF FGt(p.y, r.max.y) THEN FSub(p.y, r.max.y) ELSE 0
    IN  FAdd(FMul(dx, dx), FMul(dy, dy))
RectDistanceToPos(r, p) == FSqrt(RectDistanceSqToPos(r, p))

\* Pos2::distance_sq and Pos2::distance
PosDistanceSq(a, b) ==
    LET d == VSub(a, b) IN FAdd(FMul(d.x, d.x), FMul(d.y, d.y))
PosDistance(a, b) == FSqrt(PosDistanceSq(a, b))

\* emath::remap(x, from, to) = lerp(to, (x - from.start) / (from.end - from.start))
Remap(x, f0, f1, t0, t1) ==
    LET t == FDiv(FSub(x, f0), FSub(f1, f0))
    IN  FAdd(FMul(FSub(Num(1), t), t0), FMul(t, t1))

\* RectTransform
RectTransformFromTo(from, to) == [from |-> from, to |-> to]
Inverse(tf) == RectTransformFromTo(tf.to, tf.from)
TransformPos(tf, p) ==
    V2(Remap(p.x, tf.from.min.x, tf.from.max.x, tf.to.min.x, tf.to.max.x),
       Remap(p.y, tf.from.min.y, tf.from.max.y, tf.to.min.y, tf.to.max.y))
TransformRect(tf, r) == Rect(TransformPos(tf, r.min), TransformPos(tf, r.max))

\* Align2::CENTER_TOP.anchor_rect
AnchorCenterTop(r) ==
    RectFromMinSize(V2(FSub(r.min.x, FMul(Half, RectWidth(r))), r.min.y), RectSize(r))

\* ------------------------------------------------------------ View2DState

\* Option<T>
None == [some |-> FALSE, v |-> 0]
\* Option<Pos2>, Option<Vec2>
NonePos == [some |-> FALSE, v |-> [x |-> 0, y |-> 0]]
Some(v) == [some |-> TRUE, v |-> v]

\* ZoomState::Auto and ZoomState::Scaled { scale, center, accepting_scroll }.
\* (One record shape for both; the payload fields of Auto are unused.)
ZoomAuto == [kind |-> "Auto", scale |-> 0, center |-> VZero, accepting_scroll |-> FALSE]
ZoomScaled(scale, center, accepting_scroll) ==
    [kind |-> "Scaled", scale |-> scale, center |-> center,
     accepting_scroll |-> accepting_scroll]

\* impl Default for View2DState
View2DStateDefault ==
    [hovered_instance |-> "None", scene_bbox_accum |-> RectNothing, zoom |-> ZoomAuto]

UnitRect == Rect(VZero, V2(Num(1), Num(1)))

\* View2DState::desired_size_and_offset: (desired_size, scroll_offset)
DesiredSizeAndOffsetAuto(self, available_size) ==
    LET scene_bbox == IF RectIsPositive(self.scene_bbox_accum)
                      THEN self.scene_bbox_accum ELSE UnitRect
        size0 == RectSize(scene_bbox)
        \* fill full width
        size1 == VScale(size0, FDiv(available_size.x, size0.x))
        \* shrink so we don't fill more than full height
        size2 == VScale(size1, FMin(FDiv(available_size.y, size1.y), Num(1)))
    IN  IF VIsFinite(size2)
        THEN [desired_size |-> size2, scroll_offset |-> VZero]
        ELSE [desired_size |-> available_size, scroll_offset |-> VZero]

\* The Scaled layout with the whole available size taken off the offset
\* instead of its half.
DesiredSizeAndOffsetScaledCorner(self, available_size) ==
    LET scale == self.zoom.scale
        center == self.zoom.center
        desired_size == VScale(RectSize(self.scene_bbox_accum), scale)
        scroll_offset == VSub(VScale(VSub(center, self.scene_bbox_accum.min), scale),
                              available_size)
    IN  [desired_size |-> desired_size, scroll_offset |-> scroll_offset]

DesiredSizeAndOffsetScaled(self, available_size) ==
    LET scale == self.zoom.scale
        center == self.zoom.center
        desired_size == VScale(RectSize(self.scene_bbox_accum), scale)
        \* Try to keep the center of the scene in the middle of the available size
        scroll_offset == VSub(VScale(VSub(center, self.scene_bbox_accum.min), scale),
                              VDivS(available_size, Num(2)))
    IN  [desired_size |-> desired_size, scroll_offset |-> scroll_offset]

DesiredSizeAndOffset(self, available_size) ==
    IF self.zoom.kind = "Scaled"
    THEN DesiredSizeAndOffsetScaled(self, available_size)
    ELSE DesiredSizeAndOffsetAuto(self, available_size)

\* The zoom gesture taken whether or not the pointer is over the view.
HoveredZoomAnywhere(response) ==
    IF ~FEq(response.zoom_delta, Num(1)) THEN Some(response.zoom_delta) ELSE None

\* The zoom gesture of a frame: Some(zoom_delta) when the view is hovered and
\* zoom_delta != 1.0.
HoveredZoom(response) ==
    IF response.hovered /\ ~FEq(response.zoom_delta, Num(1))
    THEN Some(response.zoom_delta) ELSE None

\* The Scaled arm with the shift of the center divided by the scale before the
\* zoom instead of new_scale.
UpdateScaledArmOldScale(self, response, ui_to_space) ==
    LET scale == self.zoom.scale
        center == self.zoom.center
        hovered_zoom == HoveredZoom(response)
        zooming == hovered_zoom.some
        new_scale == FMul(scale, hovered_zoom.v)
        zoom_loc == TransformPos(ui_to_space, response.pointer_pos.v)
        dist_from_center == VSub(zoom_loc, center)
        shift_in_ui == VScale(dist_from_center, FSub(new_scale, scale))
        shift_in_space == VDivS(shift_in_ui, scale)
        center1 == IF zooming /\ response.pointer_pos.some
                   THEN VAdd(center, shift_in_space) ELSE center
        scale1 == IF zooming THEN new_scale ELSE scale
        center2 == IF response.dragged
                   THEN VSub(center1, VDivS(response.drag_delta, scale1)) ELSE center1
        accepting_scroll == ~zooming /\ ~response.dragged
    IN  [self EXCEPT !.zoom = ZoomScaled(scale1, center2, accepting_scroll)]

\* The Scaled arm with the drag taken in ui points: the center moves by
\* drag_delta instead of drag_delta / scale.
UpdateScaledArmDragInUi(self, response, ui_to_space) ==
    LET scale == self.zoom.scale
        center == self.zoom.center
        hovered_zoom == HoveredZoom(response)
        zooming == hovered_zoom.some
        new_scale == FMul(scale, hovered_zoom.v)
        zoom_loc == TransformPos(ui_to_space, response.pointer_pos.v)
        dist_from_center == VSub(zoom_loc, center)
        shift_in_ui == VScale(dist_from_center, FSub(new_scale, scale))
        shift_in_space == VDivS(shift_in_ui, new_scale)
        center1 == IF zooming /\ response.pointer_pos.some
                   THEN VAdd(center, shift_in_space) ELSE center
        scale1 == IF zooming THEN new_scale ELSE scale
        center2 == IF response.dragged
                   THEN VSub(center1, response.drag_delta) ELSE center1
        accepting_scroll == ~zooming /\ ~response.dragged
    IN  [self EXCEPT !.zoom = ZoomScaled(scale1, center2, accepting_scroll)]

\* The Scaled arm starting from the accepting_scroll the state holds instead of
\* true.
UpdateScaledArmKeepsScroll(self, response, ui_to_space) ==
    LET scale == self.zoom.scale
        center == self.zoom.center
        hovered_zoom == HoveredZoom(response)
        zooming == hovered_zoom.some
        new_scale == FMul(scale, hovered_zoom.v)
        zoom_loc == TransformPos(ui_to_space, response.pointer_pos.v)
        dist_from_center == VSub(zoom_loc, center)
        shift_in_ui == VScale(dist_from_center, FSub(new_scale, scale))
        shift_in_space == VDivS(shift_in_ui, new_scale)
        center1 == IF zooming /\ response.pointer_pos.some
                   THEN VAdd(center, shift_in_space) ELSE center
        scale1 == IF zooming THEN new_scale ELSE scale
        center2 == IF response.dragged
                   THEN VSub(center1, VDivS(response.drag_delta, scale1)) ELSE center1
        accepting_scroll == self.zoom.accepting_scroll /\ ~zooming /\ ~response.dragged
    IN  [self EXCEPT !.zoom = ZoomScaled(scale1, center2, accepting_scroll)]

\* View2DState::update, the Scaled arm of the match: gestures.
UpdateScaledArm(self, response, ui_to_space) ==
    LET scale == self.zoom.scale
        center == self.zoom.center
        hovered_zoom == HoveredZoom(response)
        zooming == hovered_zoom.some
        new_scale == FMul(scale, hovered_zoom.v)
        \* Adjust for mouse location while executing zoom
        zoom_loc == TransformPos(ui_to_space, response.pointer_pos.v)
        dist_from_center == VSub(zoom_loc, center)
        shift_in_ui == VScale(dist_from_center, FSub(new_scale, scale))
        shift_in_space == VDivS(shift_in_ui, new_scale)
        center1 == IF zooming /\ response.pointer_pos.some
                   THEN VAdd(center, shift_in_space) ELSE center
        scale1 == IF zooming THEN new_scale ELSE scale
        \* If we are dragging, adjust the center accordingly
        center2 == IF response.dragged
                   THEN VSub(center1, VDivS(response.drag_delta, scale1)) ELSE center1
        accepting_scroll == ~zooming /\ ~response.dragged
    IN  [self EXCEPT !.zoom = ZoomScaled(scale1, center2, accepting_scroll)]

\* update with the test of the zoomed region's size left out: only a double
\* click resets ZoomState to Auto.
UpdateResetOnDoubleClick(self, response, available_size) ==
    IF self.zoom.kind = "Scaled" /\ response.double_clicked
    THEN [self EXCEPT !.zoom = ZoomAuto] ELSE self

\* update resetting to Auto only where the zoomed region is smaller than the
\* available size.
UpdateResetWhenSmaller(self, response, available_size) ==
    IF self.zoom.kind = "Scaled"
       /\ FLt(FMul(RectSize(self.scene_bbox_accum).x, self.zoom.scale), available_size.x)
       /\ FLt(FMul(RectSize(self.scene_bbox_accum).y, self.zoom.scale), available_size.y)
    THEN [self EXCEPT !.zoom = ZoomAuto] ELSE self

\* View2DState::update, after the match: what resets ZoomState to Auto.
UpdateReset(self, response, available_size) ==
    IF self.zoom.kind = "Scaled"
    THEN LET scale == self.zoom.scale
             size == RectSize(self.scene_bbox_accum)
             s1 == IF response.double_clicked
                   THEN [self EXCEPT !.zoom = ZoomAuto] ELSE self
         IN  \* If our zoomed region is smaller than the available size
             IF FLt(FMul(size.x, scale), available_size.x)
                /\ FLt(FMul(size.y, scale), available_size.y)
             THEN [s1 EXCEPT !.zoom = ZoomAuto] ELSE s1
    ELSE self

\* The state Auto becomes on a hovered zoom-in, before the recursive update.
UpdateEnterScaled(self, response) ==
    LET scale == FDiv(RectHeight(response.rect), RectHeight(self.scene_bbox_accum))
        center == RectCenter(self.scene_bbox_accum)
    IN  [self EXCEPT !.zoom = ZoomScaled(scale, center, FALSE)]

\* update leaving the gesture that entered Scaled to the next call.
UpdateWithoutRecursion(self, response, ui_to_space, available_size) ==
    UpdateReset(IF self.zoom.kind = "Auto"
                THEN IF HoveredZoom(response).some /\ FGt(HoveredZoom(response).v, Num(1))
                     THEN UpdateEnterScaled(self, response)
                     ELSE self
                ELSE UpdateScaledArm(self, response, ui_to_space),
                response, available_size)

RECURSIVE Update(_, _, _, _)
\* View2DState::update(&mut self, response, ui_to_space, available_size)
Update(self, response, ui_to_space, available_size) ==
    LET hovered_zoom == HoveredZoom(response)
        matched ==
            IF self.zoom.kind = "Auto"
            THEN IF hovered_zoom.some /\ FGt(hovered_zoom.v, Num(1))
                 THEN \* Recursively update now that ZoomState is Scaled
                      Update(UpdateEnterScaled(self, response), response,
                             ui_to_space, available_size)
                 ELSE self
            ELSE UpdateScaledArm(self, response, ui_to_space)
    IN  UpdateReset(matched, response, available_size)

\* capture_scroll measuring the center from the origin instead of the left top
\* of scene_bbox_accum.
CaptureScrollFromOrigin(self, offset, available_size) ==
    IF self.zoom.kind = "Scaled" /\ self.zoom.accepting_scroll
    THEN LET scale == self.zoom.scale
             center == VDivS(VAdd(VDivS(available_size, Num(2)), offset), scale)
         IN  [self EXCEPT !.zoom = ZoomScaled(scale, center, TRUE)]
    ELSE self

\* capture_scroll taking the offset whether or not the state accepts scroll.
CaptureScrollAlways(self, offset, available_size) ==
    IF self.zoom.kind = "Scaled"
    THEN LET scale == self.zoom.scale
             center == VAdd(self.scene_bbox_accum.min,
                            VDivS(VAdd(VDivS(available_size, Num(2)), offset), scale))
         IN  [self EXCEPT !.zoom = ZoomScaled(scale, center, self.zoom.accepting_scroll)]
    ELSE self

\* View2DState::capture_scroll(&mut self, offset, available_size)
CaptureScroll(self, offset, available_size) ==
    IF self.zoom.kind = "Scaled" /\ self.zoom.accepting_scroll
    THEN LET scale == self.zoom.scale
             center == VAdd(self.scene_bbox_accum.min,
                            VDivS(VAdd(VDivS(available_size, Num(2)), offset), scale))
         IN  [self EXCEPT !.zoom = ZoomScaled(scale, center, TRUE)]
    ELSE self

\* ---------------------------------------------------------------- hit test

\* let hover_radius = 5.0;
HoverRadius == 5

FAbs(a) == IF IsNaN(a) THEN NaN ELSE Abs(a)

\* check_hovering taking a candidate only when it is strictly closer.
CheckHoveringStrict(acc, instance_hash, dist) ==
    IF FLt(dist, acc.closest_dist)
    THEN [closest_dist |-> dist, closest_instance_id_hash |-> instance_hash]
    ELSE acc

\* The closure check_hovering: the accumulator is (closest_dist,
\* closest_instance_id_hash).
CheckHovering(acc, instance_hash, dist) ==
    IF FLe(dist, acc.closest_dist)
    THEN [closest_dist |-> dist, closest_instance_id_hash |-> instance_hash]
    ELSE acc

\* add_label: the rectangle a label covers.  The galley's size is the label's
\* laid-out text size, which the font layout gives.
AddLabel(galley_size, text_anchor_pos) ==
    RectExpand2(AnchorCenterTop(RectFromMinSize(text_anchor_pos, galley_size)),
                V2(Num(4), Num(2)))

\* crate::math::line_segment_distance_sq_to_point_2d
LineSegmentDistanceSqToPoint2d(a, b, p) ==
    LET l2 == PosDistanceSq(a, b)
        pa == VSub(p, a)
        ba == VSub(b, a)
        dot == FAdd(FMul(pa.x, ba.x), FMul(pa.y, ba.y))
        t == FMin(FMax(FDiv(dot, l2), 0), Num(1))
        projection == VAdd(a, VScale(ba, t))
    IN  IF l2 = 0 THEN PosDistanceSq(a, p) ELSE PosDistanceSq(p, projection)

\* The hover check of an image with the distance as measured.
HitImageMeasured(acc, img, ui_from_space, pointer_pos) ==
    IF pointer_pos.some
    THEN LET rect_in_ui == TransformRect(ui_from_space,
                                         RectFromMinSize(VZero, V2(img.w, img.h)))
         IN  CheckHovering(acc, img.instance_hash,
                           FSqrt(RectDistanceSqToPos(rect_in_ui, pointer_pos.v)))
    ELSE acc

\* One image of `for (image_idx, img) in scene.images`
HitImage(acc, img, ui_from_space, pointer_pos) ==
    IF pointer_pos.some
    THEN LET rect_in_ui == TransformRect(ui_from_space,
                                         RectFromMinSize(VZero, V2(img.w, img.h)))
             dist == FSqrt(RectDistanceSqToPos(rect_in_ui, pointer_pos.v))
         IN  \* allow stuff on top of us to "win"
             CheckHovering(acc, img.instance_hash, FMax(dist, Num(HoverRadius)))
    ELSE acc

\* One box of `for bbox in &scene.boxes`
HitBox(acc, box, ui_from_space, pointer_pos) ==
    LET rect_in_ui == TransformRect(ui_from_space, box.bbox)
        acc1 == IF pointer_pos.some
                THEN CheckHovering(acc, box.instance_hash,
                                   RectDistanceToPos(rect_in_ui, pointer_pos.v))
                ELSE acc
        rect == AddLabel(box.label.v,
                         VAdd(RectCenterBottom(rect_in_ui), V2(0, Num(3))))
    IN  IF box.label.some /\ pointer_pos.some
        THEN CheckHovering(acc1, box.instance_hash,
                           FAbs(RectDistanceToPos(rect, pointer_pos.v)))
        ELSE acc1

RECURSIVE MinDistSq(_, _, _, _, _)
\* `for &[a, b] in bytemuck::cast_slice::<_, [egui::Pos2; 2]>(points)`: the
\* points are taken two at a time, (p1, p2), (p3, p4), ...
MinDistSq(min_dist_sq, points, i, ui_from_space, pointer_pos) ==
    IF i + 1 > Len(points) THEN min_dist_sq
    ELSE LET a == TransformPos(ui_from_space, points[i])
             b == TransformPos(ui_from_space, points[i + 1])
             next == IF pointer_pos.some
                     THEN FMin(min_dist_sq,
                               LineSegmentDistanceSqToPoint2d(a, b, pointer_pos.v))
                     ELSE min_dist_sq
         IN  MinDistSq(next, points, i + 2, ui_from_space, pointer_pos)

\* `points.iter().tuple_windows()`: the segments add_segments_2d draws, one for
\* every two neighbouring points.
TupleWindows(points) ==
    [i \in 1..(IF Len(points) = 0 THEN 0 ELSE Len(points) - 1) |->
        <<points[i], points[i + 1]>>]

\* bytemuck::cast_slice panics when the points do not divide into pairs.
CastSlicePanics(points) == Len(points) % 2 # 0

\* One strip of `for segments in &scene.line_segments`
HitLineSegments(acc, segments, ui_from_space, pointer_pos) ==
    CheckHovering(acc, segments.instance_hash,
                  FSqrt(MinDistSq(PInf, segments.points, 1, ui_from_space, pointer_pos)))

\* One point of `for point in &scene.points`
HitPoint(acc, point, ui_from_space, pointer_pos) ==
    LET pos_in_ui == TransformPos(ui_from_space, point.pos)
        rect == AddLabel(point.label.v, VAdd(pos_in_ui, V2(0, Num(3))))
        acc1 == IF point.label.some /\ pointer_pos.some
                THEN CheckHovering(acc, point.instance_hash,
                                   FAbs(RectDistanceToPos(rect, pointer_pos.v)))
                ELSE acc
    IN  IF pointer_pos.some
        THEN CheckHovering(acc1, point.instance_hash,
                           PosDistance(pos_in_ui, pointer_pos.v))
        ELSE acc1

RECURSIVE HitImages(_, _, _, _, _)
HitImages(acc, images, i, tf, pp) ==
    IF i > Len(images) THEN acc
    ELSE HitImages(HitImage(acc, images[i], tf, pp), images, i + 1, tf, pp)

RECURSIVE HitBoxes(_, _, _, _, _)
HitBoxes(acc, boxes, i, tf, pp) ==
    IF i > Len(boxes) THEN acc
    ELSE HitBoxes(HitBox(acc, boxes[i], tf, pp), boxes, i + 1, tf, pp)

RECURSIVE HitLines(_, _, _, _, _)
HitLines(acc, lines, i, tf, pp) ==
    IF i > Len(lines) THEN acc
    ELSE HitLines(HitLineSegments(acc, lines[i], tf, pp), lines, i + 1, tf, pp)

RECURSIVE HitPoints(_, _, _, _, _)
HitPoints(acc, points, i, tf, pp) ==
    IF i > Len(points) THEN acc
    ELSE HitPoints(HitPoint(acc, points[i], tf, pp), points, i + 1, tf, pp)

\* The hit test started from an unbounded closest_dist.
HitTestUnbounded(scene, ui_from_space, pointer_pos) ==
    LET acc0 == [closest_dist |-> PInf, closest_instance_id_hash |-> "None"]
        acc1 == HitImages(acc0, scene.images, 1, ui_from_space, pointer_pos)
        acc2 == HitBoxes(acc1, scene.boxes, 1, ui_from_space, pointer_pos)
        acc3 == HitLines(acc2, scene.line_segments, 1, ui_from_space, pointer_pos)
    IN  HitPoints(acc3, scene.points, 1, ui_from_space, pointer_pos)

\* The hit test of view_2d_scrollable: images, then boxes, then line
\* segments, then points; the result is (closest_dist, closest_instance_id_hash).
HitTest(scene, ui_from_space, pointer_pos) ==
    LET acc0 == [closest_dist |-> Num(HoverRadius), closest_instance_id_hash |-> "None"]
        acc1 == HitImages(acc0, scene.images, 1, ui_from_space, pointer_pos)
        acc2 == HitBoxes(acc1, scene.boxes, 1, ui_from_space, pointer_pos)
        acc3 == HitLines(acc2, scene.line_segments, 1, ui_from_space, pointer_pos)
    IN  HitPoints(acc3, scene.points, 1, ui_from_space, pointer_pos)

\* -------------------------------------------------------------- the frame

VARIABLES
    state,           \* the View2DState of the view, kept across frames
    pc,              \* where view_2d stands: "idle", "scrollable", "capture", "panicked"
    frame,           \* frames completed
    available_size,  \* ui.available_size() of the frame
    scene,           \* the Scene2D of the frame
    layout,          \* desired_size, the requested offset and the offset given to the ScrollArea
    response,        \* the egui::Response of allocate_painter, with the frame's input
    hit,             \* closest_dist and closest_instance_id_hash of the hit test
    scroll_out,      \* scroll_out.state.offset, the offset the ScrollArea ends the frame with
    zoom_before,     \* history: state.zoom as the frame's call of update found it
    last_drag,       \* history: the pan of the last frame that called update
    drag_before,     \* history: the pan of the frame before that one
    drawn,           \* whether the frame's draw was set up and queued
    ctx,             \* the ViewerContext of the frame: selection and rec_cfg's hovered spaces
    shapes           \* the projection markers among the label_shapes given to the painter

vars == <<state, pc, frame, available_size, scene, layout, response, hit, scroll_out,
          zoom_before, last_drag, drag_before, drawn, ctx, shapes>>

\* The place of the view on the screen: the ScrollArea's inner rect starts here.
ViewOrigin == VZero

NoScene == [bbox |-> RectNothing, images |-> <<>>, boxes |-> <<>>,
            line_segments |-> <<>>, points |-> <<>>, store |-> {}]
NoLayout == [desired_size |-> VZero, offset |-> VZero, scroll_offset |-> VZero,
             hover_effect |-> "None"]
NoResponse == [rect |-> Rect(VZero, VZero), hovered |-> FALSE, pointer_pos |-> NonePos,
               zoom_delta |-> Num(1), dragged |-> FALSE, drag_delta |-> VZero,
               clicked |-> FALSE, double_clicked |-> FALSE]
NoHit == [closest_dist |-> Num(HoverRadius), closest_instance_id_hash |-> "None"]
\* HoveredSpace: nothing, this or another 2D space with the pointer's position
\* (x, y and depth z), or a 3D space with, per 2D space it shows, an optional ray
\* and an optional projected point.
HoveredSpaceNone == [kind |-> "None", space_2d |-> "", pos |-> <<>>, target_spaces |-> <<>>]
HoveredSpaceTwoD(space_2d, pos) ==
    [kind |-> "TwoD", space_2d |-> space_2d, pos |-> pos, target_spaces |-> <<>>]
HoveredSpaceThreeD(target_spaces) ==
    [kind |-> "ThreeD", space_2d |-> "", pos |-> <<>>, target_spaces |-> target_spaces]

\* The ViewerContext between frames.
NoCtx == [selection |-> "None",
          hovered_space_this_frame |-> HoveredSpaceNone,
          hovered_space_previous_frame |-> HoveredSpaceNone]

NoDrag == [some |-> FALSE, center |-> VZero, scale |-> 0, drag_delta |-> VZero]

Init ==
    /\ state = View2DStateDefault
    /\ pc = "idle"
    /\ frame = 0
    /\ available_size = VZero
    /\ scene = NoScene
    /\ layout = NoLayout
    /\ response = NoResponse
    /\ hit = NoHit
    /\ scroll_out = VZero
    /\ zoom_before = ZoomAuto
    /\ last_drag = NoDrag
    /\ drag_before = NoDrag
    /\ drawn = FALSE
    /\ ctx = NoCtx
    /\ shapes = <<>>

\* view_2d, the bound on the offset: at_most(desired_size - available_size),
\* then at_least(Vec2::ZERO).
\* The bounding of the offset without its lower bound.
BoundOffsetAtMostOnly(offset, desired_size, avail) ==
    VAtMost(offset, VSub(desired_size, avail))

BoundOffset(offset, desired_size, avail) ==
    VAtLeast(VAtMost(offset, VSub(desired_size, avail)), VZero)

\* view_2d up to the ScrollArea: hover_effect on the instance hovered in the
\* previous frame, the layout, and the offset handed to the ScrollArea.
View2dLayout(self, avail) ==
    LET dso == DesiredSizeAndOffset(self, avail)
    IN  [desired_size |-> dso.desired_size,
         offset |-> dso.scroll_offset,
         scroll_offset |-> BoundOffset(dso.scroll_offset, dso.desired_size, avail),
         hover_effect |-> self.hovered_instance]

View2dBegin(avails, scenes, frames, ctxs) ==
    /\ pc = "idle"
    /\ frame < frames
    /\ \E avail \in avails, sc \in scenes :
          /\ available_size' = avail
          /\ scene' = sc
          /\ layout' = View2dLayout(state, avail)
    /\ ctx' \in ctxs
    /\ pc' = "scrollable"
    /\ UNCHANGED <<state, frame, response, hit, scroll_out, zoom_before, last_drag,
                   drag_before, drawn, shapes>>

\* parent_ui.allocate_painter(desired_size, click_and_drag) inside the
\* ScrollArea: the content starts at the viewport's corner moved back by the
\* scroll offset, and has the desired size.
AllocatePainterRect(desired_size, scroll_offset) ==
    RectFromMinSize(VSub(ViewOrigin, scroll_offset), desired_size)

\* The part of the content the ScrollArea shows (the painter's clip rect).
ClipRect(rect, avail) == RectIntersect(rect, RectFromMinSize(ViewOrigin, avail))

\* The Response of the frame: the host's pointer and gesture input `inp` met
\* with the allocated rect.
MakeResponse(rect, avail, inp) ==
    [rect |-> rect,
     hovered |-> inp.pointer_pos.some /\ RectContains(ClipRect(rect, avail), inp.pointer_pos.v),
     pointer_pos |-> inp.pointer_pos,
     zoom_delta |-> inp.zoom_delta,
     dragged |-> inp.dragged,
     drag_delta |-> IF inp.dragged THEN inp.drag_delta ELSE VZero,
     clicked |-> inp.clicked,
     double_clicked |-> inp.double_clicked]

\* Response::hover_pos()
HoverPos(resp) == IF resp.hovered THEN resp.pointer_pos ELSE NonePos

\* What the host can deliver: a click needs the pointer over the view and is
\* no drag; a double click is a click; a drag needs a pointer.
InputOk(resp) ==
    /\ resp.clicked => resp.hovered /\ ~resp.dragged
    /\ resp.double_clicked => resp.clicked
    /\ resp.dragged => resp.pointer_pos.some

\* setup_view_builder: Err when the painter's clip rect has no pixel on an axis
\* (pixels_per_point = 1).
SetupViewBuilderOk(rect, avail) ==
    LET size == RectSize(ClipRect(rect, avail))
    IN  FLe(Half, size.x) /\ FLe(Half, size.y)

\* What ViewBuilder::setup_view can come back with (`?` in setup_view_builder):
\* TRUE for Ok, FALSE for an error of the renderer.
SetupViewOutcomes == BOOLEAN

\* InstanceIdHash::resolve
Resolve(instance_hash, store) ==
    IF instance_hash \in store THEN instance_hash ELSE "None"

ScenePanics(sc) == \E i \in 1..Len(sc.line_segments) : CastSlicePanics(sc.line_segments[i].points)

\* History of panning: a frame whose update started in Scaled, carried a
\* primary drag and no zoom gesture, and ended in Scaled, leaves the center and
\* scale it started from and its drag delta; every other frame leaves nothing.
PanOf(self, resp, updated) ==
    IF self.zoom.kind = "Scaled" /\ updated.zoom.kind = "Scaled"
       /\ resp.dragged /\ ~HoveredZoom(resp).some
    THEN [some |-> TRUE, center |-> self.zoom.center, scale |-> self.zoom.scale,
          drag_delta |-> resp.drag_delta]
    ELSE NoDrag

\* The space this view shows (`space: &ObjPath`).
Space == "space2d"

V3(x, y, z) == [x |-> x, y |-> y, z |-> z]
NoMeter == [some |-> FALSE, v |-> 0]

\* `pos_in_image.y.round() as _`: f32::round goes to the nearest integer, halves
\* away from zero, and the cast to an index saturates: a negative number or NaN
\* gives 0.
RoundAsIndex(a) ==
    IF IsNaN(a) \/ a = NInf THEN 0
    ELSE IF a = PInf THEN PInf
    ELSE IF a <= 0 THEN 0
    ELSE (a + Half) \div G

\* Tensor::get(&[row, column]) of a depth image of h rows and w columns: the
\* value of the pixel, none outside the image.
TensorGet(img, row, col) ==
    IF Num(row) < img.h /\ Num(col) < img.w THEN Some(img.raw) ELSE [some |-> FALSE, v |-> 0]

\* `if let Some(meter) = *meter { ... depths_at_pointer.push(depth_in_meters) }`
\* of one image: the reading the image adds, if any.
DepthReading(img, space_from_ui, pointer_pos) ==
    IF pointer_pos.some /\ img.meter.some
    THEN LET pos_in_image == TransformPos(space_from_ui, pointer_pos.v)
             raw_value == TensorGet(img, RoundAsIndex(pos_in_image.y),
                                    RoundAsIndex(pos_in_image.x))
         IN  IF raw_value.some THEN Some(FDiv(raw_value.v, img.meter.v))
             ELSE [some |-> FALSE, v |-> 0]
    ELSE [some |-> FALSE, v |-> 0]

RECURSIVE DepthsAtPointer(_, _, _, _)
\* depths_at_pointer after the loop over the images
DepthsAtPointer(images, i, space_from_ui, pointer_pos) ==
    IF i > Len(images) THEN <<>>
    ELSE LET reading == DepthReading(images[i], space_from_ui, pointer_pos)
         IN  (IF reading.some THEN <<reading.v>> ELSE <<>>)
             \o DepthsAtPointer(images, i + 1, space_from_ui, pointer_pos)

\* let depth_at_pointer = if depths_at_pointer.len() == 1 { .. } else { f32::INFINITY }
DepthAtPointer(depths_at_pointer) ==
    IF Len(depths_at_pointer) = 1 THEN depths_at_pointer[1] ELSE PInf

\* `if let Some(instance_id) = &state.hovered_instance { if response.clicked()
\* { ctx.set_selection(..) } }`: state.hovered_instance is still the instance
\* resolved at the end of the frame before.
ClickSelect(c, self, resp) ==
    IF self.hovered_instance # "None" /\ resp.clicked
    THEN [c EXCEPT !.selection = self.hovered_instance]
    ELSE c

\* project_onto_other_spaces
ProjectOntoOtherSpaces(c, space, resp, space_from_ui, z) ==
    IF HoverPos(resp).some
    THEN LET pointer_in_space == TransformPos(space_from_ui, HoverPos(resp).v)
         IN  [c EXCEPT !.hovered_space_this_frame =
                 HoveredSpaceTwoD(space, V3(pointer_in_space.x, pointer_in_space.y, z))]
    ELSE c

RECURSIVE ProjectionMarkers(_, _, _, _)
\* `for (space_2d, ray_2d, pos_2d) in target_spaces`: a marker (two discs and
\* the depth label) for every entry of this space with a projected point; the
\* ray is not shown (show_ray = false).
ProjectionMarkers(target_spaces, i, space, ui_from_space) ==
    IF i > Len(target_spaces) THEN <<>>
    ELSE LET t == target_spaces[i]
         IN  (IF t.space_2d = space /\ t.pos_2d.some
              THEN << [pos_in_ui |-> TransformPos(ui_from_space,
                                                  V2(t.pos_2d.v.x, t.pos_2d.v.y)),
                       depth |-> t.pos_2d.v.z] >>
              ELSE <<>>)
             \o ProjectionMarkers(target_spaces, i + 1, space, ui_from_space)

\* show_projections_from_3d_space: the shapes it pushes
ShowProjectionsFrom3dSpace(c, space, ui_from_space) ==
    IF c.hovered_space_previous_frame.kind = "ThreeD"
    THEN ProjectionMarkers(c.hovered_space_previous_frame.target_spaces, 1, space,
                           ui_from_space)
    ELSE <<>>

\* view_2d_scrollable after the draw was queued: the click, the hover record
\* with the depth at the pointer.
AfterDraw(c, self, resp, space_from_ui, images) ==
    ProjectOntoOtherSpaces(ClickSelect(c, self, resp), Space, resp, space_from_ui,
                           DepthAtPointer(DepthsAtPointer(images, 1, space_from_ui,
                                                          HoverPos(resp))))

\* view_2d_scrollable from the hover check to its end: the hit test's outcome
\* is stored; the click, the hover record, the projection markers and
\* hovered_instance are reached only when setup_view_builder succeeded, the
\* early return leaves them as they were; a line strip of odd length panics in
\* cast_slice.
ScrollableFinish(rect, resp, updated, tested, setup_view_ok, ctx_after, label_shapes) ==
    /\ InputOk(resp)
    /\ response' = resp
    /\ zoom_before' = state.zoom
    /\ last_drag' = PanOf(state, resp, updated)
    /\ drag_before' = last_drag
    /\ IF ScenePanics(scene)
       THEN /\ state' = updated
            /\ hit' = NoHit
            /\ drawn' = FALSE
            /\ ctx' = ctx
            /\ shapes' = <<>>
            /\ pc' = "panicked"
       ELSE /\ hit' = tested
            /\ pc' = "capture"
            /\ drawn' = (SetupViewBuilderOk(rect, available_size) /\ setup_view_ok)
            /\ state' =
                 IF SetupViewBuilderOk(rect, available_size) /\ setup_view_ok
                 THEN [updated EXCEPT !.hovered_instance =
                          Resolve(tested.closest_instance_id_hash, scene.store)]
                 ELSE updated
            /\ ctx' = IF SetupViewBuilderOk(rect, available_size) /\ setup_view_ok
                      THEN ctx_after ELSE ctx
            /\ shapes' = IF SetupViewBuilderOk(rect, available_size) /\ setup_view_ok
                         THEN label_shapes ELSE <<>>

\* view_2d_scrollable from the allocated painter on: the two transforms,
\* state.update, and the hit test under the hover position.
ScrollableBody(scene_bbox, rect, resp, ui_from_space, setup_view_ok) ==
    ScrollableFinish(rect, resp,
                     Update([state EXCEPT !.scene_bbox_accum = scene_bbox],
                            resp, Inverse(ui_from_space), available_size),
                     HitTest(scene, ui_from_space, HoverPos(resp)),
                     setup_view_ok,
                     AfterDraw(ctx, state, resp, Inverse(ui_from_space), scene.images),
                     ShowProjectionsFrom3dSpace(ctx, Space, ui_from_space))

\* view_2d_scrollable with the rect allocate_painter returned
ScrollableAllocated(scene_bbox, rect, inp, setup_view_ok) ==
    ScrollableBody(scene_bbox, rect, MakeResponse(rect, available_size, inp),
                   RectTransformFromTo(scene_bbox, rect), setup_view_ok)

\* view_2d_scrollable
View2dScrollable(inputs, outcomes) ==
    /\ pc = "scrollable"
    /\ \E inp \in inputs, setup_view_ok \in outcomes :
          ScrollableAllocated(RectUnion(state.scene_bbox_accum, scene.bbox),
                              AllocatePainterRect(layout.desired_size, layout.scroll_offset),
                              inp, setup_view_ok)
    /\ UNCHANGED <<frame, available_size, scene, layout, scroll_out>>

\* The ScrollArea at the end of show(): the offset it was given, moved by the
\* user's scrolling, kept within the content.
ScrollAreaEnd(offset, user_scroll, content_size, inner_size) ==
    VAtLeast(VAtMost(VAdd(offset, user_scroll), VSub(content_size, inner_size)), VZero)

\* view_2d after the ScrollArea: state.capture_scroll(scroll_out.state.offset, available_size)
View2dEnd(scrolls) ==
    /\ pc = "capture"
    /\ \E user_scroll \in scrolls :
          LET committed == ScrollAreaEnd(layout.scroll_offset, user_scroll,
                                         RectSize(response.rect), available_size)
          IN  /\ scroll_out' = committed
              /\ state' = CaptureScroll(state, committed, available_size)
    /\ pc' = "idle"
    /\ frame' = frame + 1
    \* the frame's locals go out of scope
    /\ available_size' = VZero
    /\ scene' = NoScene
    /\ layout' = NoLayout
    /\ response' = NoResponse
    /\ hit' = NoHit
    /\ zoom_before' = ZoomAuto
    /\ drawn' = FALSE
    /\ ctx' = NoCtx
    /\ shapes' = <<>>
    /\ UNCHANGED <<last_drag, drag_before>>

\* ------------------------------------------------------- the host's input

\* Sizes ui.available_size() takes.
AvailSizes ==
    {V2(Num(100), Num(100)), V2(Num(200), Num(200)), V2(Num(400), Num(400)),
     V2(Num(200), Num(50))}

NoLabel == NonePos

\* A scene of an image with a box and a point on it.
SceneA ==
    [bbox |-> Rect(VZero, V2(Num(100), Num(50))),
     images |-> << [instance_hash |-> "img", w |-> Num(100), h |-> Num(50),
                    meter |-> NoMeter, raw |-> 0] >>,
     boxes |-> << [instance_hash |-> "box",
                   bbox |-> Rect(V2(Num(25), 25 * Half), V2(Num(75), Num(25))),
                   label |-> NoLabel] >>,
     line_segments |-> <<>>,
     points |-> << [instance_hash |-> "pt", pos |-> V2(Num(50), Num(25)), label |-> NoLabel] >>,
     store |-> {"img", "box", "pt"}]

\* A scene whose bounding box starts left of and above the origin: a labelled
\* box, a line strip of two segments, a labelled point.  The strip is not in the
\* object store any more.
SceneB ==
    [bbox |-> Rect(V2(Num(-26), Num(-13)), V2(Num(64), Num(32))),
     images |-> <<>>,
     boxes |-> << [instance_hash |-> "boxb",
                   bbox |-> Rect(V2(Num(-26), Num(-13)), V2(Num(19), 19 * Half)),
                   label |-> Some(V2(Num(24), Num(8)))] >>,
     line_segments |-> << [instance_hash |-> "line",
                           points |-> << V2(Num(-26), Num(32)), V2(Num(64), Num(-13)),
                                         V2(Num(64), Num(32)), V2(Num(19), 19 * Half) >>] >>,
     points |-> << [instance_hash |-> "ptb", pos |-> V2(Num(19), 19 * Half),
                    label |-> Some(V2(Num(16), Num(8)))] >>,
     store |-> {"boxb", "ptb"}]

Scenes == {SceneA, SceneB}

\* Where the pointer is: nowhere, three places over the view, one below it.
OverView == {V2(Num(50), Num(50)), V2(Num(50), Num(45)), V2(Num(20), Num(50))}
PointerPositions == {NonePos, Some(V2(Num(50), Num(240)))} \cup {Some(p) : p \in OverView}

ZoomDeltas == {Half, 3 * Half, Num(2)}

DragDeltas == {V2(Num(5), Num(-3)), V2(Num(-5), Num(3))}

Input(pp, z, dragged, dd, clicked, double_clicked) ==
    [pointer_pos |-> pp, zoom_delta |-> z, dragged |-> dragged, drag_delta |-> dd,
     clicked |-> clicked, double_clicked |-> double_clicked]

\* The context of a frame in which no other view is hovered and nothing is
\* selected.
QuietCtxs == {NoCtx}

\* What a frame's input can be: the pointer resting somewhere; a zoom gesture
\* with the pointer over the view, away from it or absent; a primary drag, alone
\* or with a zoom gesture; a click or a double click, alone or with a zoom
\* gesture.
Inputs ==
    {Input(pp, Num(1), FALSE, VZero, FALSE, FALSE) : pp \in PointerPositions}
    \cup {Input(Some(p), z, FALSE, VZero, FALSE, FALSE) :
            p \in {V2(Num(50), Num(50)), V2(Num(20), Num(50))}, z \in ZoomDeltas}
    \cup {Input(pp, Num(2), FALSE, VZero, FALSE, FALSE) :
            pp \in {NonePos, Some(V2(Num(50), Num(240)))}}
    \cup {Input(Some(V2(Num(50), Num(50))), z, TRUE, dd, FALSE, FALSE) :
            z \in {Num(1), Num(2)}, dd \in DragDeltas}
    \cup {Input(Some(V2(Num(50), Num(50))), z, FALSE, VZero, TRUE, d) :
            z \in {Num(1), Num(2)}, d \in BOOLEAN}

UserScrolls == {VZero, V2(Num(16), 0)}

Next ==
    \/ View2dBegin(AvailSizes, Scenes, MaxFrames, QuietCtxs)
    \/ View2dScrollable(Inputs, {TRUE})
    \/ View2dEnd(UserScrolls)

Spec == Init /\ [][Next]_vars

\* Panning and zooming only: one view size, one scene, the pointer at two
\* places over the view, and no scrolling by the user.
PanInputs ==
    {Input(Some(p), z, FALSE, VZero, FALSE, FALSE) :
        p \in {V2(Num(50), Num(50)), V2(Num(56), Num(50))}, z \in {Num(1), 3 * Half, Num(2)}}
    \cup {Input(Some(V2(Num(50), Num(50))), Num(1), TRUE, dd, FALSE, FALSE) :
            dd \in DragDeltas \cup {V2(Num(6), Num(2)), V2(Num(-6), Num(-2))}}

NextPan ==
    \/ View2dBegin({V2(Num(100), Num(100))}, {SceneA}, MaxPanFrames, QuietCtxs)
    \/ View2dScrollable(PanInputs, {TRUE})
    \/ View2dEnd({VZero})

SpecPan == Init /\ [][NextPan]_vars

\* Frames whose draw can fail: the renderer may refuse the view in any frame.
NextDraw ==
    \/ View2dBegin({V2(Num(100), Num(100)), V2(Num(200), Num(200))}, Scenes, MaxFrames,
                   QuietCtxs)
    \/ View2dScrollable(Inputs, SetupViewOutcomes)
    \/ View2dEnd(UserScrolls)

SpecDraw == Init /\ [][NextDraw]_vars

\* A scene of a single point: its bounding box has no width and no height.
SceneC ==
    [bbox |-> Rect(V2(Num(50), Num(25)), V2(Num(50), Num(25))),
     images |-> <<>>,
     boxes |-> <<>>,
     line_segments |-> <<>>,
     points |-> << [instance_hash |-> "ptc", pos |-> V2(Num(50), Num(25)), label |-> NoLabel] >>,
     store |-> {"ptc"}]

\* Frames that can show the single point, before or after the image.
NextDegenerate ==
    \/ View2dBegin({V2(Num(100), Num(100))}, {SceneA, SceneC}, MaxFrames, QuietCtxs)
    \/ View2dScrollable(Inputs, {TRUE})
    \/ View2dEnd(UserScrolls)

SpecDegenerate == Init /\ [][NextDegenerate]_vars

\* A scene of one box as high as it is wide.
SceneE ==
    [bbox |-> Rect(VZero, V2(Num(100), Num(100))),
     images |-> <<>>,
     boxes |-> << [instance_hash |-> "boxe",
                   bbox |-> Rect(VZero, V2(Num(100), Num(100))),
                   label |-> NoLabel] >>,
     line_segments |-> <<>>,
     points |-> <<>>,
     store |-> {"boxe"}]

\* Frames in which the scene can grow higher between the layout and update.
NextGrow ==
    \/ View2dBegin({V2(Num(100), Num(100)), V2(Num(200), Num(50))}, {SceneA, SceneE},
                   MaxFrames, QuietCtxs)
    \/ View2dScrollable(Inputs, {TRUE})
    \/ View2dEnd(UserScrolls)

SpecGrow == Init /\ [][NextGrow]_vars

\* A scene of one line strip of three segments, the middle one upright through
\* the middle of the scene.
SceneM ==
    [bbox |-> Rect(VZero, V2(Num(100), Num(50))),
     images |-> <<>>,
     boxes |-> <<>>,
     line_segments |-> << [instance_hash |-> "strip",
                           points |-> << V2(0, 0), V2(Num(50), 0),
                                         V2(Num(50), Num(50)), V2(Num(100), Num(50)) >>] >>,
     points |-> <<>>,
     store |-> {"strip"}]

\* A scene of one line strip of two segments: three points.
SceneL ==
    [bbox |-> Rect(VZero, V2(Num(100), Num(50))),
     images |-> <<>>,
     boxes |-> <<>>,
     line_segments |-> << [instance_hash |-> "strip3",
                           points |-> << V2(0, 0), V2(Num(50), 0), V2(Num(100), Num(50)) >>] >>,
     points |-> <<>>,
     store |-> {"strip3"}]

\* Frames that show line strips.
NextLines ==
    \/ View2dBegin({V2(Num(100), Num(100))}, {SceneB, SceneM, SceneL}, MaxFrames, QuietCtxs)
    \/ View2dScrollable(Inputs, {TRUE})
    \/ View2dEnd(UserScrolls)

SpecLines == Init /\ [][NextLines]_vars

\* The pointer resting over the view or zooming in or out there.
IdleInputs ==
    {Input(Some(p), z, FALSE, VZero, FALSE, FALSE) :
        p \in {V2(Num(50), Num(50)), V2(Num(20), Num(50))}, z \in {Num(1), 3 * Half, Num(2)}}

\* Frames of one scene in a view of one size, the user scrolling or not.
NextIdle ==
    \/ View2dBegin({V2(Num(100), Num(100))}, {SceneB}, MaxIdleFrames, QuietCtxs)
    \/ View2dScrollable(IdleInputs, {TRUE})
    \/ View2dEnd({VZero, V2(Num(3), Num(1))})

SpecIdle == Init /\ [][NextIdle]_vars

\* A scene of two depth images, the second narrower and over the left part of
\* the first: depths of 3 m and of 2 m.
SceneD ==
    [bbox |-> Rect(VZero, V2(Num(100), Num(50))),
     images |-> << [instance_hash |-> "depth1", w |-> Num(100), h |-> Num(50),
                    meter |-> Some(Num(16)), raw |-> Num(48)],
                   [instance_hash |-> "depth2", w |-> Num(40), h |-> Num(50),
                    meter |-> Some(Num(16)), raw |-> Num(32)] >>,
     boxes |-> <<>>,
     line_segments |-> <<>>,
     points |-> <<>>,
     store |-> {"depth1", "depth2"}]

\* One entry of HoveredSpace::ThreeD's target_spaces
TargetSpace(space_2d, ray_some, pos_2d) ==
    [space_2d |-> space_2d, ray_2d |-> ray_some, pos_2d |-> pos_2d]

\* A 3D view hovering a point that projects into this space
Hovered3dWithPoint ==
    HoveredSpaceThreeD(<< TargetSpace("other2d", TRUE, Some(V3(Num(10), Num(10), Num(1)))),
                          TargetSpace(Space, TRUE, Some(V3(Num(50), Num(25), Num(3)))) >>)

\* A 3D view whose hover gives this space a ray and no point
Hovered3dRayOnly ==
    HoveredSpaceThreeD(<< TargetSpace(Space, TRUE, [some |-> FALSE, v |-> V3(0, 0, 0)]) >>)

\* A 3D view whose hover projects into another space only
Hovered3dElsewhere ==
    HoveredSpaceThreeD(<< TargetSpace("other2d", FALSE, Some(V3(Num(10), Num(10), Num(1)))) >>)

\* The contexts a frame can start with: something or nothing selected, the
\* hover record of this frame empty or written by a 3D view shown before this
\* one, the record of the frame before empty, of a 3D view or of another 2D view.
HoverCtxs ==
    [selection : {"None", "old"},
     hovered_space_this_frame : {HoveredSpaceNone, Hovered3dWithPoint},
     hovered_space_previous_frame :
        {HoveredSpaceNone, Hovered3dWithPoint, Hovered3dRayOnly, Hovered3dElsewhere,
         HoveredSpaceTwoD("other2d", V3(Num(10), Num(10), PInf))}]

\* The pointer away from the view, resting over it, clicking, zooming in.
HoverInputs ==
    {Input(pp, Num(1), FALSE, VZero, FALSE, FALSE) :
        pp \in {NonePos, Some(V2(Num(50), Num(240))), Some(V2(Num(50), Num(45))),
                Some(V2(Num(20), Num(45)))}}
    \cup {Input(Some(p), Num(1), FALSE, VZero, TRUE, d) :
            p \in {V2(Num(50), Num(45)), V2(Num(20), Num(45))}, d \in BOOLEAN}
    \cup {Input(Some(V2(Num(50), Num(45))), Num(2), FALSE, VZero, FALSE, FALSE)}

\* Frames among other views: any context, a draw that can fail.
NextHover ==
    \/ View2dBegin({V2(Num(100), Num(100))}, {SceneA, SceneD}, MaxHoverFrames, HoverCtxs)
    \/ View2dScrollable(HoverInputs, SetupViewOutcomes)
    \/ View2dEnd({VZero})

SpecHover == Init /\ [][NextHover]_vars

\* ------------------------------------------------------------- properties

\* view_2d_scrollable has returned: zoom_before, response, layout and hit
\* describe the frame, and state is as update and the hit test left it.
AfterUpdate == pc = "capture"

\* bbox.size() * scale is smaller than available_size on both axes.
Fits(bbox, scale, avail) ==
    /\ FLt(FMul(RectWidth(bbox), scale), avail.x)
    /\ FLt(FMul(RectHeight(bbox), scale), avail.y)

\* The frame carries a zoom gesture over the view.
ZoomGesture == response.hovered /\ response.zoom_delta # Num(1)

\* The scale of a Scaled state after the frame's zoom gesture.
ScaleAfterGesture ==
    IF ZoomGesture THEN FMul(zoom_before.scale, response.zoom_delta) ELSE zoom_before.scale

\* update started in Scaled with the zoomed content smaller than the view.
StartedFitting ==
    /\ AfterUpdate
    /\ zoom_before.kind = "Scaled"
    /\ Fits(state.scene_bbox_accum, zoom_before.scale, available_size)

\* C1 as stated: every update that starts in Scaled with bbox.size() * scale
\* smaller than available_size on both axes ends in Auto, whatever the input.
C1_AutoRevertAnyInput == StartedFitting => state.zoom.kind = "Auto"

\* C1, amended: an update that starts in Scaled with bbox.size() * scale smaller
\* than available_size on both axes ends in Auto exactly when the call carries a
\* double click or the scale after the call's zoom gesture (scale * zoom_delta
\* when hovered and zoom_delta != 1, else scale) is still smaller on both axes;
\* in particular it ends in Auto whenever the call carries no zoom gesture.
C1_AutoRevert ==
    StartedFitting =>
        /\ state.zoom.kind = "Auto" <=>
               (response.double_clicked
                \/ Fits(state.scene_bbox_accum, ScaleAfterGesture, available_size))
        /\ ~ZoomGesture => state.zoom.kind = "Auto"

\* C1: a fitting Scaled state met a drag or a zoom gesture and became Auto.
C1_Reverted ==
    /\ StartedFitting
    /\ ZoomGesture \/ response.dragged
    /\ state.zoom.kind = "Auto"


\* C2: starting from Auto, update leaves the zoom state Scaled only when the
\* pointer is over the view and zoom_delta > 1.0 in that call; with every other
\* input (a drag, a double click, zoom_delta <= 1.0, any zoom_delta while not
\* hovered) the state stays Auto.
C2_AutoToScaledOnlyByZoomIn ==
    (AfterUpdate /\ zoom_before.kind = "Auto" /\ state.zoom.kind = "Scaled") =>
        (response.hovered /\ FGt(response.zoom_delta, Num(1)))

\* C2: an update that started in Auto ended in Scaled.
C2_EnteredScaled ==
    AfterUpdate /\ zoom_before.kind = "Auto" /\ state.zoom.kind = "Scaled"


\* The scene point under the pointer, as update computes zoom_loc.
ZoomLoc ==
    TransformPos(Inverse(RectTransformFromTo(state.scene_bbox_accum, response.rect)),
                 response.pointer_pos.v)

\* update started in Scaled, applied a zoom gesture and no drag, and left Scaled.
ZoomedInScaled ==
    /\ AfterUpdate
    /\ zoom_before.kind = "Scaled"
    /\ ZoomGesture
    /\ ~response.dragged
    /\ state.zoom.kind = "Scaled"

\* Four times |(q - c2) * s2 - (q - c) * s|, in exact arithmetic (the unit is
\* the square of the quantum).
ZoomDeviation4(q, c, c2, s, s2) == 4 * Abs((q - c2) * s2 - (q - c) * s)

\* Four times the rounding the five operations of the center's shift can add
\* up to: each operation is off by at most half the spacing of the floats at
\* its result.
ZoomTolerance4(q, c, s, s2) ==
    LET d == FSub(q, c)
        ds == FSub(s2, s)
        u == FMul(d, ds)
        v == FDiv(u, s2)
        c2 == FAdd(c, v)
    IN  2 * Abs(q - c) * Ulp(ds) + 2 * Ulp(d) * Abs(s2 - s) + Ulp(d) * Ulp(ds)
        + 2 * Ulp(u) * G + 2 * (Ulp(v) + Ulp(c2)) * s2

\* C3 as stated: a zoom gesture in Scaled with factor z at the pointer, q the
\* scene point under the pointer, gives the scale s2 = s * z (as f32) and a
\* center c2 with (q - c2) * s2 = (q - c) * s.
C3_ZoomTowardCursorExact ==
    ZoomedInScaled =>
        LET q == ZoomLoc
            c == zoom_before.center
            c2 == state.zoom.center
            s == zoom_before.scale
            s2 == state.zoom.scale
        IN  /\ s2 = FMul(s, response.zoom_delta)
            /\ (q.x - c2.x) * s2 = (q.x - c.x) * s
            /\ (q.y - c2.y) * s2 = (q.y - c.y) * s

\* C3, amended: a zoom gesture in Scaled with factor z at the pointer, q the
\* scene point under the pointer, gives s2 = s * z rounded to a float, and a
\* center c2 with (q - c2) * s2 = (q - c) * s up to the rounding of the five
\* operations that shift the center.
C3_ZoomTowardCursor ==
    ZoomedInScaled =>
        LET q == ZoomLoc
            c == zoom_before.center
            c2 == state.zoom.center
            s == zoom_before.scale
            s2 == state.zoom.scale
        IN  /\ s2 = FMul(s, response.zoom_delta)
            /\ ZoomDeviation4(q.x, c.x, c2.x, s, s2) <= ZoomTolerance4(q.x, c.x, s, s2)
            /\ ZoomDeviation4(q.y, c.y, c2.y, s, s2) <= ZoomTolerance4(q.y, c.y, s, s2)

\* C3: a zoom gesture in Scaled away from the center moved the center.
C3_ZoomedAwayFromCenter ==
    /\ ZoomedInScaled
    /\ ZoomLoc # zoom_before.center
    /\ state.zoom.center # zoom_before.center


\* capture_scroll called with the offset desired_size_and_offset returns for
\* the same state and the same available size.
RoundTrip(self, avail) ==
    CaptureScroll(self, DesiredSizeAndOffset(self, avail).scroll_offset, avail)

\* Twice |c2 - c| * scale against the rounding of the six operations between
\* center and center again, on one axis: m is the left top of the bbox, h the
\* half of the available size.
RoundTripWithinRounding(c, c2, m, h, scale) ==
    LET d == FSub(c, m)
        p == FMul(d, scale)
        o == FSub(p, h)
        r == FAdd(h, o)
        w == FDiv(r, scale)
    IN  2 * Abs(c2 - c) * scale
            <= (Ulp(d) + Ulp(w) + Ulp(c2)) * scale + (Ulp(p) + Ulp(o) + Ulp(r)) * G

AcceptingScroll == state.zoom.kind = "Scaled" /\ state.zoom.accepting_scroll

\* C4 as stated: in Scaled with accepting_scroll, capture_scroll called with the
\* unclamped offset desired_size_and_offset returns for the same state leaves
\* center and scale unchanged.
C4_RoundTripExact ==
    AcceptingScroll =>
        \A avail \in AvailSizes :
            /\ RoundTrip(state, avail).zoom.center = state.zoom.center
            /\ RoundTrip(state, avail).zoom.scale = state.zoom.scale

\* C4, amended: in Scaled with accepting_scroll, capture_scroll called with the
\* unclamped offset desired_size_and_offset returns for the same state leaves
\* scale unchanged and center unchanged up to the rounding of the six
\* operations between the two.
C4_RoundTrip ==
    AcceptingScroll =>
        \A avail \in AvailSizes :
            LET after == RoundTrip(state, avail).zoom
                bbox == state.scene_bbox_accum
                half == VDivS(avail, Num(2))
            IN  /\ after.kind = "Scaled"
                /\ after.scale = state.zoom.scale
                /\ RoundTripWithinRounding(state.zoom.center.x, after.center.x,
                                           bbox.min.x, half.x, state.zoom.scale)
                /\ RoundTripWithinRounding(state.zoom.center.y, after.center.y,
                                           bbox.min.y, half.y, state.zoom.scale)

\* C4: a frame about to call capture_scroll in Scaled with accepting_scroll,
\* whose ScrollArea was handed, unclamped, the offset the state asks for.
C4_OffsetHandedUnclamped ==
    /\ AfterUpdate
    /\ AcceptingScroll
    /\ layout.offset = DesiredSizeAndOffset(state, available_size).scroll_offset
    /\ layout.scroll_offset = layout.offset


\* The frame's update was a pan: it started in Scaled, carried a primary drag
\* and no zoom gesture, and ended in Scaled.
Panned == AfterUpdate /\ last_drag.some

\* The frame's update was a pan, and so was the update of the frame before,
\* by the opposite delta.
PannedBack ==
    /\ Panned
    /\ drag_before.some
    /\ last_drag.drag_delta = V2(FNeg(drag_before.drag_delta.x), FNeg(drag_before.drag_delta.y))

\* A pan moves center by -drag_delta / scale and keeps scale.
PanMovesCenter ==
    Panned =>
        /\ state.zoom.kind = "Scaled"
        /\ state.zoom.scale = last_drag.scale
        /\ state.zoom.center
              = VSub(last_drag.center, VDivS(last_drag.drag_delta, last_drag.scale))

\* Twice |c2 - c0| against the rounding of the two moves of the center, c1
\* being the center between them.
BackWithinRounding(c0, c1, c2) == 2 * Abs(c2 - c0) <= Ulp(c1) + Ulp(c2)

\* C5 as stated: a drag by d in Scaled moves center by -d / scale, and a
\* following drag by -d (no zoom gesture, no auto-revert in either call) puts
\* center back exactly where it was before the first drag, scale unchanged.
C5_DragReversibleExact ==
    /\ PanMovesCenter
    /\ PannedBack =>
          /\ state.zoom.scale = drag_before.scale
          /\ state.zoom.center = drag_before.center

\* C5, amended: a drag by d in Scaled moves center by -d / scale (in f32), and
\* a following drag by -d (no zoom gesture, no auto-revert in either call)
\* leaves scale unchanged and puts center back where it was before the first
\* drag up to the rounding of the two moves: on each axis at most half an ulp
\* of the center between the drags plus half an ulp of the final center.
C5_DragReversible ==
    /\ PanMovesCenter
    /\ PannedBack =>
          /\ state.zoom.scale = drag_before.scale
          /\ last_drag.center
                = VSub(drag_before.center, VDivS(drag_before.drag_delta, drag_before.scale))
          /\ BackWithinRounding(drag_before.center.x, last_drag.center.x, state.zoom.center.x)
          /\ BackWithinRounding(drag_before.center.y, last_drag.center.y, state.zoom.center.y)

\* C5: a drag and the opposite drag in the next frame, which moved the center
\* away and back.
C5_DraggedThereAndBack ==
    /\ PannedBack
    /\ last_drag.center # drag_before.center


\* view_2d has computed the frame's layout from state, and nothing has changed
\* state since.
LaidOut == pc = "scrollable"

\* C6 as stated: in Auto, with a bbox of positive width w and height h and a
\* positive available size, desired_size is (w, h) * k for the one factor
\* k = min(available_size.x / w, available_size.y / h), it exceeds available_size
\* on neither axis, and the offset is (0, 0); bbox (0,0)-(100,50) with available
\* size (200,200) gives desired size (200,100) and offset (0,0).
C6_AutoLayout ==
    /\ DesiredSizeAndOffset([View2DStateDefault EXCEPT
                                !.scene_bbox_accum = Rect(VZero, V2(Num(100), Num(50)))],
                            V2(Num(200), Num(200)))
          = [desired_size |-> V2(Num(200), Num(100)), scroll_offset |-> VZero]
    /\ (LaidOut /\ state.zoom.kind = "Auto" /\ RectIsPositive(state.scene_bbox_accum)) =>
          LET w == RectWidth(state.scene_bbox_accum)
              h == RectHeight(state.scene_bbox_accum)
              k == FMin(FDiv(available_size.x, w), FDiv(available_size.y, h))
          IN  /\ layout.desired_size = V2(FMul(w, k), FMul(h, k))
              /\ FLe(layout.desired_size.x, available_size.x)
              /\ FLe(layout.desired_size.y, available_size.y)
              /\ layout.offset = VZero


\* The state of C7's example: bbox (0,0)-(100,50), Scaled, scale 2, center (50,25).
ExampleScaled(accepting_scroll) ==
    [View2DStateDefault EXCEPT
        !.scene_bbox_accum = Rect(VZero, V2(Num(100), Num(50))),
        !.zoom = ZoomScaled(Num(2), V2(Num(50), Num(25)), accepting_scroll)]

\* C7: in Scaled, desired_size is scene_bbox_accum.size() * scale and the offset
\* is (center - scene_bbox_accum.top_left) * scale - available_size / 2, whatever
\* accepting_scroll is; bbox (0,0)-(100,50), scale 2, center (50,25), available
\* size (100,100) gives desired size (200,100) and offset (50,0).
C7_ScaledLayout ==
    /\ \A b \in BOOLEAN :
          DesiredSizeAndOffset(ExampleScaled(b), V2(Num(100), Num(100)))
            = [desired_size |-> V2(Num(200), Num(100)), scroll_offset |-> V2(Num(50), 0)]
    /\ (LaidOut /\ state.zoom.kind = "Scaled") =>
          LET bbox == state.scene_bbox_accum
              scale == state.zoom.scale
              center == state.zoom.center
          IN  /\ layout.desired_size.x = FMul(FSub(bbox.max.x, bbox.min.x), scale)
              /\ layout.desired_size.y = FMul(FSub(bbox.max.y, bbox.min.y), scale)
              /\ layout.offset.x = FSub(FMul(FSub(center.x, bbox.min.x), scale),
                                        FDiv(available_size.x, Num(2)))
              /\ layout.offset.y = FSub(FMul(FSub(center.y, bbox.min.y), scale),
                                        FDiv(available_size.y, Num(2)))
              /\ \A b \in BOOLEAN :
                    DesiredSizeAndOffset([state EXCEPT !.zoom.accepting_scroll = b],
                                         available_size)
                      = [desired_size |-> layout.desired_size,
                         scroll_offset |-> layout.offset]

\* C7: a frame laid out in Scaled whose bbox does not start at the origin and
\* whose center is not in the middle of the view.
C7_ScaledLaidOut ==
    /\ LaidOut
    /\ state.zoom.kind = "Scaled"
    /\ state.scene_bbox_accum.min # VZero
    /\ layout.offset # VZero


\* lo <= x <= hi, in the order of f32.
Within(x, lo, hi) == FLe(lo, x) /\ FLe(x, hi)

\* C8 as stated: in every frame the offset handed to the scroll area lies
\* component-wise in [0, desired_size - available_size].
C8_OffsetInContentBounds ==
    LaidOut =>
        LET room == VSub(layout.desired_size, available_size)
        IN  /\ Within(layout.scroll_offset.x, 0, room.x)
            /\ Within(layout.scroll_offset.y, 0, room.y)

\* C8: in every frame the offset handed to the scroll area lies component-wise
\* in [0, max(0, desired_size - available_size)], the difference taken in f32
\* as the code takes it: the offset is never negative, it is 0 on an axis where
\* the content is not larger than the view, and it is the layout's offset
\* wherever that lies in the interval.
C8_OffsetBounded ==
    LaidOut =>
        LET room == VSub(layout.desired_size, available_size)
        IN  /\ VIsFinite(layout.scroll_offset)
            /\ Within(layout.scroll_offset.x, 0, FMax(0, room.x))
            /\ Within(layout.scroll_offset.y, 0, FMax(0, room.y))
            /\ FLe(layout.desired_size.x, available_size.x) => layout.scroll_offset.x = 0
            /\ FLe(layout.desired_size.y, available_size.y) => layout.scroll_offset.y = 0
            /\ Within(layout.offset.x, 0, room.x) => layout.scroll_offset.x = layout.offset.x
            /\ Within(layout.offset.y, 0, room.y) => layout.scroll_offset.y = layout.offset.y

\* C8: a frame in which the bounding changed the offset of the layout on an
\* axis where the content is larger than the view.
C8_OffsetWasBounded ==
    /\ LaidOut
    /\ \/ /\ layout.offset.x # layout.scroll_offset.x
          /\ FLt(available_size.x, layout.desired_size.x)
       \/ /\ layout.offset.y # layout.scroll_offset.y
          /\ FLt(available_size.y, layout.desired_size.y)


\* ---------------------------------------------------------- the hit test
\* The hit test's candidates, as a set: one per hoverable target, with the
\* category of its primitive (1 images, 2 boxes, 3 line segments, 4 points),
\* the primitive's id and the target's distance from the pointer p.

Candidate(cat, instance_hash, dist) ==
    [cat |-> cat, instance_hash |-> instance_hash, dist |-> dist]

\* An image: the distance to its rectangle, 0 inside.
ImageCandidates(sc, tf, p) ==
    { Candidate(1, sc.images[i].instance_hash,
                FSqrt(RectDistanceSqToPos(
                        TransformRect(tf, RectFromMinSize(VZero, V2(sc.images[i].w,
                                                                     sc.images[i].h))),
                        p))) : i \in 1..Len(sc.images) }

BoxCandidates(sc, tf, p) ==
    { Candidate(2, sc.boxes[i].instance_hash,
                RectDistanceToPos(TransformRect(tf, sc.boxes[i].bbox), p))
        : i \in 1..Len(sc.boxes) }
    \cup
    { Candidate(2, sc.boxes[i].instance_hash,
                FAbs(RectDistanceToPos(
                       AddLabel(sc.boxes[i].label.v,
                                VAdd(RectCenterBottom(TransformRect(tf, sc.boxes[i].bbox)),
                                     V2(0, Num(3)))),
                       p)))
        : i \in { j \in 1..Len(sc.boxes) : sc.boxes[j].label.some } }

LineCandidates(sc, tf, p) ==
    { Candidate(3, sc.line_segments[i].instance_hash,
                FSqrt(MinDistSq(PInf, sc.line_segments[i].points, 1, tf, Some(p))))
        : i \in 1..Len(sc.line_segments) }

PointCandidates(sc, tf, p) ==
    { Candidate(4, sc.points[i].instance_hash,
                PosDistance(TransformPos(tf, sc.points[i].pos), p))
        : i \in 1..Len(sc.points) }
    \cup
    { Candidate(4, sc.points[i].instance_hash,
                FAbs(RectDistanceToPos(
                       AddLabel(sc.points[i].label.v,
                                VAdd(TransformPos(tf, sc.points[i].pos), V2(0, Num(3)))),
                       p)))
        : i \in { j \in 1..Len(sc.points) : sc.points[j].label.some } }

Candidates(sc, tf, p) ==
    ImageCandidates(sc, tf, p) \cup BoxCandidates(sc, tf, p)
        \cup LineCandidates(sc, tf, p) \cup PointCandidates(sc, tf, p)

\* The candidates as check_hovering receives them: an image within the hover
\* radius competes at the hover radius.
AsChecked(cands) ==
    { IF c.cat = 1 THEN [c EXCEPT !.dist = FMax(c.dist, Num(HoverRadius))] ELSE c
        : c \in cands }

WithinRadius(cands) == { c \in cands : FLe(c.dist, Num(HoverRadius)) }

\* The candidates within the hover radius that no candidate is closer than.
Tied(cands) ==
    { c \in WithinRadius(cands) : \A d \in WithinRadius(cands) : FLe(c.dist, d.dist) }

\* ui_from_space and the pointer of the frame's hit test.
UiFromSpace ==
    RectTransformFromTo(state.scene_bbox_accum,
                        AllocatePainterRect(layout.desired_size, layout.scroll_offset))

FrameCandidates == Candidates(scene, UiFromSpace, HoverPos(response).v)

HitTested == AfterUpdate /\ HoverPos(response).some

\* Where the closest candidates are of more than one category, the returned id
\* is that of one of the latest category among them.
LatestOfTiedWins(cands) ==
    Cardinality({ c.cat : c \in Tied(cands) }) >= 2 =>
        \E c \in Tied(cands) :
            /\ c.instance_hash = hit.closest_instance_id_hash
            /\ \A d \in Tied(cands) : d.cat <= c.cat


\* C9: the candidates are taken in the order images, boxes, line segments,
\* points and one replaces the current best when its distance is less than or
\* equal to the best distance; so when primitives of different categories are
\* at exactly equal distance from the pointer, within the hover radius, and no
\* candidate is closer, the one of the later category is returned (a point beats
\* a box, a box beats an image), both with the distances as measured and with
\* the distances as check_hovering receives them.
C9_LaterCategoryWinsTies ==
    HitTested =>
        /\ LatestOfTiedWins(FrameCandidates)
        /\ LatestOfTiedWins(AsChecked(FrameCandidates))

\* C9: a frame in which a point and a box are at the same distance from the
\* pointer, nothing is closer, and the point is returned.
C9_PointBeatsBox ==
    /\ HitTested
    /\ {2, 4} \subseteq { c.cat : c \in Tied(AsChecked(FrameCandidates)) }
    /\ \E c \in Tied(AsChecked(FrameCandidates)) :
          c.cat = 4 /\ c.instance_hash = hit.closest_instance_id_hash

\* C10: the id the hit test returns is never that of a primitive all of whose
\* hoverable targets (geometry and label rectangle) are farther from the pointer
\* than the hover radius; with no candidate within the hover radius, or without
\* a pointer position, the result is InstanceIdHash::NONE.
C10_HoverThreshold ==
    AfterUpdate =>
        /\ hit.closest_instance_id_hash # "None" =>
              /\ HoverPos(response).some
              /\ \E c \in WithinRadius(FrameCandidates) :
                    c.instance_hash = hit.closest_instance_id_hash
        /\ ~HoverPos(response).some => hit.closest_instance_id_hash = "None"
        /\ (HoverPos(response).some /\ WithinRadius(FrameCandidates) = {}) =>
              hit.closest_instance_id_hash = "None"

\* C10: a frame with the pointer over the view and primitives in the scene,
\* all of them farther than the hover radius, and nothing hovered.
C10_AllTooFar ==
    /\ HitTested
    /\ FrameCandidates # {}
    /\ WithinRadius(FrameCandidates) = {}
    /\ hit.closest_instance_id_hash = "None"


\* The returned id and distance are those of a closest candidate within the
\* hover radius, and nothing is returned when there is none.
ClosestReturned(cands) ==
    IF WithinRadius(cands) = {}
    THEN hit.closest_instance_id_hash = "None"
    ELSE \E c \in Tied(cands) :
            /\ c.instance_hash = hit.closest_instance_id_hash
            /\ c.dist = hit.closest_dist

\* C11 as stated: the hit test returns the primitive whose distance to the
\* pointer is minimal, the distance of an image and of a box being the
\* distance to its rectangle (0 inside) and that of a point the distance to its
\* position; none when no primitive is within the radius.
C11_ClosestByMeasuredDistance ==
    HitTested =>
        IF WithinRadius(FrameCandidates) = {}
        THEN hit.closest_instance_id_hash = "None"
        ELSE \E c \in Tied(FrameCandidates) :
                c.instance_hash = hit.closest_instance_id_hash

\* C11: the hit test returns a primitive whose distance to the pointer is
\* minimal, where an image within the hover radius counts as being at the hover
\* radius (max of its measured distance and the radius), a box and a point
\* count with the nearer of geometry and label rectangle, and a line strip with
\* its nearest segment; none when no primitive is within the radius.
C11_ClosestAsChecked ==
    HitTested => ClosestReturned(AsChecked(FrameCandidates))

\* C11: the pointer is inside an image and a box farther away is returned.
C11_BoxOverCloserImage ==
    /\ HitTested
    /\ \E i \in FrameCandidates : i.cat = 1 /\ i.dist = 0
    /\ \E b \in FrameCandidates :
          /\ b.cat = 2 /\ b.dist > 0
          /\ b.instance_hash = hit.closest_instance_id_hash


\* ------------------------------------------------------ scene_bbox_accum

\* The smallest rectangle around a and b.
Around(a, b) ==
    [min |-> [x |-> FMin(a.min.x, b.min.x), y |-> FMin(a.min.y, b.min.y)],
     max |-> [x |-> FMax(a.max.x, b.max.x), y |-> FMax(a.max.y, b.max.y)]]

\* a lies within b.
Inside(a, b) ==
    /\ FLe(b.min.x, a.min.x) /\ FLe(b.min.y, a.min.y)
    /\ FLe(a.max.x, b.max.x) /\ FLe(a.max.y, b.max.y)

\* A step of the view: view_2d_scrollable leaves the union of the accumulated
\* bbox with the frame's scene bbox, which contains both; every other step
\* leaves the accumulated bbox alone.
BboxAccumStep ==
    IF pc = "scrollable"
    THEN /\ state'.scene_bbox_accum = Around(state.scene_bbox_accum, scene.bbox)
         /\ Inside(scene.bbox, state'.scene_bbox_accum)
         /\ Inside(state.scene_bbox_accum, state'.scene_bbox_accum)
    ELSE state'.scene_bbox_accum = state.scene_bbox_accum

\* C12: scene_bbox_accum starts as Rect::NOTHING; every frame, whatever its
\* gestures and zoom state and also when its draw fails, leaves the union of
\* the value before the frame with the frame's scene bbox, so it never shrinks;
\* desired_size_and_offset, update and capture_scroll do not change it.
C12_BboxAccumMonotonic ==
    /\ state.scene_bbox_accum = [min |-> [x |-> PInf, y |-> PInf],
                                 max |-> [x |-> NInf, y |-> NInf]]
    /\ [][BboxAccumStep]_vars

\* C12: a frame whose draw failed, after which the accumulated bbox is around
\* both scenes seen and larger than the scene of the frame.
C12_GrewWithoutDraw ==
    /\ pc = "capture"
    /\ ~drawn
    /\ state.scene_bbox_accum = Around(SceneA.bbox, SceneB.bbox)
    /\ scene.bbox # state.scene_bbox_accum


\* C13: a zero-area accumulated bbox is replaced by a unit rectangle before a
\* size or scale is computed from it, so no division by a zero bbox width or
\* height occurs and the persistent Scaled state never holds a scale that is
\* not finite and > 0.
C13_ScaleFiniteAndPositive ==
    state.zoom.kind = "Scaled" =>
        /\ IsFinite(state.zoom.scale)
        /\ state.zoom.scale > 0

\* The hover record a frame with a queued draw publishes for its pointer.
HoverRecord ==
    LET space_from_ui == Inverse(UiFromSpace)
        p == TransformPos(space_from_ui, HoverPos(response).v)
    IN  HoveredSpaceTwoD(Space,
            V3(p.x, p.y, DepthAtPointer(DepthsAtPointer(scene.images, 1, space_from_ui,
                                                        HoverPos(response)))))

\* C14: a frame whose renderer setup failed leaves the interaction and hover
\* state a frame with a successful draw leaves: the hovered instance is the one
\* the hit test found, the hover record of this frame is the pointer's, and a
\* click has selected the instance hovered.
C14_DrawFailureIsolated ==
    (pc = "capture" /\ ~drawn) =>
        /\ state.hovered_instance = Resolve(hit.closest_instance_id_hash, scene.store)
        /\ HoverPos(response).some => ctx.hovered_space_this_frame = HoverRecord
        /\ (response.clicked /\ layout.hover_effect # "None") =>
               ctx.selection = layout.hover_effect

\* The record of the frame before is of a 3D view and has an entry for this
\* space that carries a projected point.
PointProjectedHere(hovered_space) ==
    /\ hovered_space.kind = "ThreeD"
    /\ \E i \in 1..Len(hovered_space.target_spaces) :
          /\ hovered_space.target_spaces[i].space_2d = Space
          /\ hovered_space.target_spaces[i].pos_2d.some

\* The markers of the projected points of this space in a record, at their
\* places in the ui.
MarkersOf(hovered_space) ==
    IF hovered_space.kind = "ThreeD"
    THEN LET here == SelectSeq(hovered_space.target_spaces,
                               LAMBDA t : t.space_2d = Space /\ t.pos_2d.some)
         IN  [i \in 1..Len(here) |->
                 [pos_in_ui |-> TransformPos(UiFromSpace,
                                             V2(here[i].pos_2d.v.x, here[i].pos_2d.v.y)),
                  depth |-> here[i].pos_2d.v.z]]
    ELSE <<>>

\* C15: in every frame the projection markers drawn are those of
\* hovered_space_previous_frame alone, whatever hovered_space_this_frame holds
\* before or after this view wrote it: there is a marker exactly when the record
\* of the frame before is of a 3D view with an entry for this space that carries
\* a projected point; an entry with a ray only gives none.
C15_MarkerFromPreviousFrame ==
    pc = "capture" =>
        /\ shapes = MarkersOf(ctx.hovered_space_previous_frame)
        /\ shapes # <<>> <=> PointProjectedHere(ctx.hovered_space_previous_frame)

\* The pointer of the frame in scene coordinates.
PointerInSpace == TransformPos(Inverse(UiFromSpace), HoverPos(response).v)

\* The images of the frame's scene that supply a depth reading at the pointer.
ImagesWithDepth ==
    { i \in 1..Len(scene.images) :
        DepthReading(scene.images[i], Inverse(UiFromSpace), HoverPos(response)).some }

\* C16: in every frame where the pointer hovers the view, the hover record of
\* this frame is a 2D record of this view's space with the pointer's position
\* in scene coordinates; its depth is the reading when exactly one image
\* supplies one at the pointer, and infinity with no reading or with two or
\* more.
C16_HoverWrite ==
    (pc = "capture" /\ HoverPos(response).some) =>
        /\ ctx.hovered_space_this_frame.kind = "TwoD"
        /\ ctx.hovered_space_this_frame.space_2d = Space
        /\ ctx.hovered_space_this_frame.pos.x = PointerInSpace.x
        /\ ctx.hovered_space_this_frame.pos.y = PointerInSpace.y
        /\ \A i \in ImagesWithDepth :
              ImagesWithDepth = {i} =>
                 ctx.hovered_space_this_frame.pos.z =
                    FDiv(scene.images[i].raw, scene.images[i].meter.v)
        /\ Cardinality(ImagesWithDepth) # 1 => ctx.hovered_space_this_frame.pos.z = PInf

\* A frame with a click: the selection after it is the instance the state held
\* as hovered when the frame began, and is as before where it held none.
ClickStep ==
    (pc = "scrollable" /\ pc' = "capture" /\ response'.clicked) =>
        ctx'.selection = IF state.hovered_instance # "None"
                         THEN state.hovered_instance
                         ELSE ctx.selection

\* C17: a frame in which the view is clicked while a primitive is hovered sets
\* the selection to the hovered instance; a frame with a click and nothing
\* hovered leaves the selection as it was.
C17_ClickSelectsHovered == [][ClickStep]_vars

\* update called where the frame stands with the input inp, a double click and
\* a primary drag by dd all at once, ends in Auto.
DoubleClickedWhileDragging(inp, dd) ==
    LET scene_bbox == RectUnion(state.scene_bbox_accum, scene.bbox)
        rect == AllocatePainterRect(layout.desired_size, layout.scroll_offset)
        resp == [MakeResponse(rect, available_size, inp) EXCEPT
                    !.clicked = TRUE, !.double_clicked = TRUE,
                    !.dragged = TRUE, !.drag_delta = dd]
    IN  Update([state EXCEPT !.scene_bbox_accum = scene_bbox], resp,
               Inverse(RectTransformFromTo(scene_bbox, rect)),
               available_size).zoom.kind = "Auto"

\* C18: after a call of update in which the view was double-clicked the zoom
\* state is Auto, whether the call found Auto or Scaled and whether or not a
\* zoom gesture or a drag came with the double click.
C18_DoubleClickResets ==
    /\ (AfterUpdate /\ response.double_clicked) => state.zoom.kind = "Auto"
    /\ pc = "scrollable" =>
          \A inp \in Inputs, dd \in DragDeltas : DoubleClickedWhileDragging(inp, dd)

\* C18: a double click together with a zoom-in on a Scaled state whose content,
\* zoomed, is larger than the view: without the double click the state would
\* have stayed Scaled.
C18_ResetWhileZooming ==
    /\ AfterUpdate
    /\ response.double_clicked
    /\ zoom_before.kind = "Scaled"
    /\ HoveredZoom(response).some
    /\ ~Fits(state.scene_bbox_accum,
             FMul(zoom_before.scale, HoveredZoom(response).v), available_size)
    /\ state.zoom.kind = "Auto"

\* update found Auto and a zoom-in gesture over the view.
ZoomedInFromAuto ==
    /\ AfterUpdate
    /\ zoom_before.kind = "Auto"
    /\ ZoomGesture
    /\ FGt(response.zoom_delta, Num(1))

\* C19: update called in Auto with the pointer over the view and a zoom delta
\* z > 1 ends in Scaled with scale = (viewport height / bbox height) * z and
\* accepting_scroll = false.
C19_EntersScaledZoomed ==
    ZoomedInFromAuto =>
        /\ state.zoom.kind = "Scaled"
        /\ state.zoom.scale =
              FMul(FDiv(available_size.y, RectHeight(state.scene_bbox_accum)),
                   response.zoom_delta)
        /\ state.zoom.accepting_scroll = FALSE

\* C19, amended: update called in Auto with the pointer over the view and a
\* zoom delta z > 1 starts from the scale s0 = height of the allocated rect /
\* bbox height and applies the gesture in the same call: where the call carries
\* a double click or the bbox at s0 * z is smaller than the available size it
\* ends in Auto, and otherwise in Scaled with scale = s0 * z (as f32) and
\* accepting_scroll = false.
C19_EntersScaledFromRect ==
    ZoomedInFromAuto =>
        LET s0 == FDiv(RectHeight(response.rect), RectHeight(state.scene_bbox_accum))
            s1 == FMul(s0, response.zoom_delta)
        IN  IF response.double_clicked \/ Fits(state.scene_bbox_accum, s1, available_size)
            THEN state.zoom.kind = "Auto"
            ELSE /\ state.zoom.kind = "Scaled"
                 /\ state.zoom.scale = s1
                 /\ state.zoom.accepting_scroll = FALSE

\* C19: a zoom-in from Auto that ended in Scaled, in a frame whose allocated
\* rect is lower than the view.
C19_EnteredFromLowerRect ==
    /\ ZoomedInFromAuto
    /\ state.zoom.kind = "Scaled"
    /\ FLt(RectHeight(response.rect), available_size.y)

\* update called where the frame stands in Scaled, with accepting_scroll as
\* given and the input inp: where it ends in Scaled, accepting_scroll is false
\* exactly when inp carries a zoom gesture over the view or a drag.
TracksInputFrom(inp, accepting_scroll) ==
    LET scene_bbox == RectUnion(state.scene_bbox_accum, scene.bbox)
        rect == AllocatePainterRect(layout.desired_size, layout.scroll_offset)
        resp == MakeResponse(rect, available_size, inp)
        out == Update([state EXCEPT !.scene_bbox_accum = scene_bbox,
                                    !.zoom.accepting_scroll = accepting_scroll],
                      resp, Inverse(RectTransformFromTo(scene_bbox, rect)), available_size)
    IN  out.zoom.kind = "Scaled" =>
           (out.zoom.accepting_scroll = FALSE <=>
               ((resp.hovered /\ resp.zoom_delta # Num(1)) \/ resp.dragged))

\* C20: after every call of update that ends in Scaled, accepting_scroll is
\* false exactly when the call processed a zoom gesture (pointer over the view
\* and zoom_delta # 1.0) or a primary drag, and true otherwise, whatever its
\* value before the call.
C20_AcceptingScrollTracksInput ==
    /\ (AfterUpdate /\ state.zoom.kind = "Scaled") =>
          (state.zoom.accepting_scroll = FALSE <=> (ZoomGesture \/ response.dragged))
    /\ (pc = "scrollable" /\ state.zoom.kind = "Scaled") =>
          \A inp \in Inputs, accepting_scroll \in BOOLEAN :
             TracksInputFrom(inp, accepting_scroll)

\* C20: a call without gesture that found Scaled with accepting_scroll = false
\* and left it true.
C20_ScrollAcceptedAgain ==
    /\ AfterUpdate
    /\ zoom_before.kind = "Scaled"
    /\ zoom_before.accepting_scroll = FALSE
    /\ ~ZoomGesture
    /\ ~response.dragged
    /\ state.zoom.kind = "Scaled"
    /\ state.zoom.accepting_scroll = TRUE

\* top_left + (available / 2 + offset) / scale on one axis, in f32.
CapturedCenter(top_left, available, offset, scale) ==
    FAdd(top_left, FDiv(FAdd(FDiv(available, Num(2)), offset), scale))

\* The step of capture_scroll with the offset the ScrollArea committed.
CaptureScrollStep ==
    (pc = "capture" /\ pc' = "idle") =>
        IF state.zoom.kind = "Scaled" /\ state.zoom.accepting_scroll
        THEN state' = [state EXCEPT !.zoom.center =
                 V2(CapturedCenter(state.scene_bbox_accum.min.x, available_size.x,
                                   scroll_out'.x, state.zoom.scale),
                    CapturedCenter(state.scene_bbox_accum.min.y, available_size.y,
                                   scroll_out'.y, state.zoom.scale))]
        ELSE state' = state

\* C21: capture_scroll leaves the whole state as it was in Auto and in Scaled
\* with accepting_scroll = false; in Scaled with accepting_scroll = true it sets
\* center = scene_bbox_accum.top_left + (available_size / 2 + offset) / scale
\* and changes nothing else.
C21_CaptureScrollFrame == [][CaptureScrollStep]_vars

\* C21: capture_scroll has taken an offset the user scrolled to: the center is
\* that of a view of some size scrolled by it, and not that of offset zero.
C21_CapturedScrolledOffset ==
    /\ pc = "idle"
    /\ state.zoom.kind = "Scaled"
    /\ state.zoom.accepting_scroll
    /\ scroll_out.x # 0
    /\ \E avail \in AvailSizes :
          /\ state.zoom.center.x =
                CapturedCenter(state.scene_bbox_accum.min.x, avail.x, scroll_out.x,
                               state.zoom.scale)
          /\ state.zoom.center.x #
                CapturedCenter(state.scene_bbox_accum.min.x, avail.x, 0, state.zoom.scale)

\* The smallest squared distance from p to a segment among segs, infinity where
\* there is none.
MinWindowDistSq(segs, tf, p) ==
    IF Len(segs) = 0 THEN PInf
    ELSE LET d(i) == LineSegmentDistanceSqToPoint2d(TransformPos(tf, segs[i][1]),
                                                    TransformPos(tf, segs[i][2]), p)
         IN  CHOOSE m \in { d(i) : i \in 1..Len(segs) } :
                \A i \in 1..Len(segs) : FLe(m, d(i))

\* C22: for every line strip, of an even or an odd number of points, the frame
\* comes through the hit test, and the distance it uses for the strip is the
\* smallest distance from the pointer to a segment between two neighbouring
\* points, the segments that are drawn; a pointer on a drawn segment is at
\* distance 0.
C22_StripDistanceOverDrawnSegments ==
    /\ pc # "panicked"
    /\ HitTested =>
          \A i \in 1..Len(scene.line_segments) :
             LET points == scene.line_segments[i].points
                 drawn_dist_sq == MinWindowDistSq(TupleWindows(points), UiFromSpace,
                                                  HoverPos(response).v)
             IN  /\ FSqrt(MinDistSq(PInf, points, 1, UiFromSpace, HoverPos(response)))
                       = FSqrt(drawn_dist_sq)
                 /\ drawn_dist_sq = 0 => hit.closest_dist = 0

\* C23: within every frame scene_bbox_accum is read only after it was unioned
\* with the frame's scene bbox: the layout of the frame is the one
\* desired_size_and_offset gives for the bbox that the transform, update and
\* capture_scroll of the frame use.
C23_LayoutReadsUnionedBbox ==
    AfterUpdate =>
        LET dso == DesiredSizeAndOffset([state EXCEPT !.zoom = zoom_before], available_size)
        IN  /\ state.scene_bbox_accum.min.x <= scene.bbox.min.x
            /\ state.scene_bbox_accum.max.x >= scene.bbox.max.x
            /\ layout.desired_size = dso.desired_size
            /\ layout.offset = dso.scroll_offset

\* The hovered instance through a frame: the emphasis at the start of a frame
\* is on the instance stored, the frame stores the instance its hit test found,
\* resolved, and the rest of the frame keeps it.
DelayedHoverStep ==
    /\ (pc = "idle" /\ pc' = "scrollable") =>
          /\ layout'.hover_effect = state.hovered_instance
          /\ state' = state
    /\ (pc = "scrollable" /\ pc' = "capture") =>
          /\ state'.hovered_instance = Resolve(hit'.closest_instance_id_hash, scene.store)
          /\ state'.scene_bbox_accum = RectUnion(state.scene_bbox_accum, scene.bbox)
    /\ (pc = "capture" /\ pc' = "idle") =>
          state'.hovered_instance = state.hovered_instance

\* C24: the closest id the hit test of frame n computed is stored, resolved to
\* an instance or none, and is the hovered instance the emphasis at the start of
\* frame n+1 uses; the emphasis of frame n uses the result of frame n-1 only.
C24_HoverDelayedOneFrame == [][DelayedHoverStep]_vars

\* A frame begins in Scaled with accepting_scroll: the frame before carried no
\* gesture, and scroll_out is the offset the ScrollArea committed in it.
IdleBefore == pc = "scrollable" /\ AcceptingScroll

\* C25: in Scaled, after a frame without zoom or drag gesture, center is
\* scene_bbox_accum.top_left + (available_size / 2 + committed offset) / scale;
\* in the next frame, with the scene bbox and the available size unchanged, the
\* requested offset is the offset committed before, the clamp does not alter
\* it, and without a gesture center and scale stay as they are.
C25_NoDriftWhenIdle ==
    IdleBefore =>
        /\ state.zoom.center =
              V2(CapturedCenter(state.scene_bbox_accum.min.x, available_size.x,
                                scroll_out.x, state.zoom.scale),
                 CapturedCenter(state.scene_bbox_accum.min.y, available_size.y,
                                scroll_out.y, state.zoom.scale))
        /\ layout.offset = scroll_out
        /\ layout.scroll_offset = layout.offset
        /\ CaptureScroll(state, layout.scroll_offset, available_size).zoom = state.zoom

\* C26: after every call of update that ends in Scaled the zoomed content is
\* not smaller than the view on both axes: scene_bbox_accum.width * scale >=
\* available_size.x or scene_bbox_accum.height * scale >= available_size.y.
C26_ScaledContentNotSmaller ==
    (AfterUpdate /\ state.zoom.kind = "Scaled") =>
        \/ FLe(available_size.x, FMul(RectWidth(state.scene_bbox_accum), state.zoom.scale))
        \/ FLe(available_size.y, FMul(RectHeight(state.scene_bbox_accum), state.zoom.scale))

====
